---- MODULE Spec2Model ----
(***************************************************************************)
(* Temple crowd prediction: the forecast model manager                     *)
(* (temple-crowd-prediction/src/prophet_model_manager.py), the JSON export *)
(* of its forecasts (temple-crowd-prediction/src/export_manager.py) and    *)
(* the stages that clean the input table                                   *)
(* (temple-crowd-prediction/src/data_processor.py), the command line       *)
(* pipeline that runs them (temple-crowd-prediction/main.py), and the      *)
(* dashboard: its zone simulator (src/data_simulation.py) and its refresh  *)
(* loop (app.py).                                                          *)
(*                                                                         *)
(* Conventions of the model                                                *)
(*  - a Python string is a sequence of one-character strings, so that      *)
(*    str.lower() and the `in` substring test are computed, not assumed;   *)
(*  - a table cell is a sequence of length at most one: <<v>> holds v and  *)
(*    <<>> is a missing value (NaN / None);                                *)
(*  - a DataFrame is a record [n, cols]: n rows, cols the sequence of its  *)
(*    columns [name, data], data being the sequence of the n cells;        *)
(*  - floating point values of the forecast are integers counting          *)
(*    thousandths, visitor counts of the input table integers counting     *)
(*    eighths.                                                             *)
(***************************************************************************)
EXTENDS Integers, Sequences, FiniteSets, TLC

VARIABLES model,        \* self.model: NoModel or a Prophet object
          regressors,   \* self.regressors: list of regressor configurations
          lastOp,       \* name of the method called last
          lastResult,   \* "ok" or the kind of exception the last call raised
          lastArg,      \* the arguments of the last call
          returned,     \* the frame or records the last call returned
          trainCalled,  \* history: train_model has been called
          trainReturned \* history: some train_model call has returned a model

vars == <<model, regressors, lastOp, lastResult, lastArg, returned,
          trainCalled, trainReturned>>

-----------------------------------------------------------------------------
(* Strings *)

UpperChars == <<"A","B","C","D","E","F","G","H","I","J","K","L","M",
                "N","O","P","Q","R","S","T","U","V","W","X","Y","Z">>
LowerChars == <<"a","b","c","d","e","f","g","h","i","j","k","l","m",
                "n","o","p","q","r","s","t","u","v","w","x","y","z">>

LowerChar(c) ==
    IF \E i \in 1..26 : UpperChars[i] = c
    THEN LowerChars[CHOOSE i \in 1..26 : UpperChars[i] = c]
    ELSE c

\* str.lower()
Lower(s) == [i \in 1..Len(s) |-> LowerChar(s[i])]

\* sub in s
Contains(s, sub) ==
    \E i \in 0..(Len(s) - Len(sub)) : SubSeq(s, i + 1, i + Len(sub)) = sub

S_ds            == <<"d","s">>
S_y             == <<"y">>
S_date          == <<"d","a","t","e">>
S_hour          == <<"h","o","u","r">>
S_visitors      == <<"v","i","s","i","t","o","r","s">>
S_festival      == <<"f","e","s","t","i","v","a","l">>
S_festival_flag == S_festival \o <<"_","f","l","a","g">>
S_weather       == <<"w","e","a","t","h","e","r">>
S_sunny         == <<"s","u","n","n","y">>
S_Sunny         == <<"S","u","n","n","y">>
S_rainy         == <<"r","a","i","n","y">>
S_partly_sunny  == <<"p","a","r","t","l","y"," ">> \o S_sunny
S_temperature   == <<"t","e","m","p">>
S_yhat          == <<"y","h","a","t">>
S_yhat_lower    == S_yhat \o <<"_","l","o","w","e","r">>
S_yhat_upper    == S_yhat \o <<"_","u","p","p","e","r">>
S_predicted_visitors == <<"p","r","e","d","i","c","t","e","d","_">> \o S_visitors
S_lower_bound   == <<"l","o","w","e","r","_","b","o","u","n","d">>
S_upper_bound   == <<"u","p","p","e","r","_","b","o","u","n","d">>

\* f"weather_{category.lower()}"
WeatherColumnName(category) == S_weather \o <<"_">> \o Lower(category)

-----------------------------------------------------------------------------
(* Cells and frames *)

NA == <<>>
Val(v) == <<v>>
NotNA(cell) == cell # NA

\* the column of n cells whose i-th cell is Cell(i)
MakeColumn(n, Cell(_)) == SubSeq([i \in 1..n |-> Cell(i)], 1, n)

NoFrame == [n |-> 0, cols |-> <<>>]

Columns(df) == {df.cols[k].name : k \in 1..Len(df.cols)}

HasColumn(df, name) == \E k \in 1..Len(df.cols) : df.cols[k].name = name

\* df[name]
Col(df, name) == df.cols[CHOOSE k \in 1..Len(df.cols) : df.cols[k].name = name].data

\* df[name] = data
SetColumn(df, name, data) ==
    IF HasColumn(df, name)
    THEN [df EXCEPT !.cols[CHOOSE k \in 1..Len(df.cols) : df.cols[k].name = name].data
                        = data]
    ELSE [df EXCEPT !.cols = Append(@, [name |-> name, data |-> data])]

-----------------------------------------------------------------------------
(* Bounds of the model *)

\* rows a training table may have beyond the minimum
MaxExtraRows == 0
\* largest number of future periods asked for
MaxPeriods == 1

-----------------------------------------------------------------------------
(* Input tables: date, hour, visitors, festival_flag, weather.             *)
(* Row i is hour (i-1) of the series; its weather and festival_flag cells  *)
(* repeat a short pattern.                                                 *)

HoursPerDay == 24
MinTrainingRows == 30

Cyclic(pat, i) == pat[((i - 1) % Len(pat)) + 1]

Table(n, wpat, fpat) ==
    LET Date(i)     == Val((i - 1) \div HoursPerDay)
        Hour(i)     == Val((i - 1) % HoursPerDay)
        Visitors(i) == Val(100 + ((i - 1) % HoursPerDay))
        Festival(i) == Cyclic(fpat, i)
        Weather(i)  == Cyclic(wpat, i)
    IN  [n    |-> n,
         cols |-> << [name |-> S_date,          data |-> MakeColumn(n, Date)],
                     [name |-> S_hour,          data |-> MakeColumn(n, Hour)],
                     [name |-> S_visitors,      data |-> MakeColumn(n, Visitors)],
                     [name |-> S_festival_flag, data |-> MakeColumn(n, Festival)],
                     [name |-> S_weather,       data |-> MakeColumn(n, Weather)] >>]

\* A table is chosen by its number of rows and its two patterns
TableOf(t) == Table(t.n, t.weather, t.festival)

W_sunny_rainy == <<Val(S_sunny), NA, Val(S_rainy)>>
W_sunny       == <<Val(S_sunny)>>
W_mixed_case  == <<Val(S_Sunny), Val(S_sunny), Val(S_partly_sunny)>>

F_flags   == <<Val(0), Val(1)>>
F_missing == <<Val(1), NA>>

RowCounts == (MinTrainingRows - 1)..(MinTrainingRows + MaxExtraRows)

-----------------------------------------------------------------------------
(* ProphetModelManager: regressor bookkeeping *)

HasRegressor(regs, name) == \E i \in 1..Len(regs) : regs[i].name = name

RegressorNames(regs) == {regs[k].name : k \in 1..Len(regs)}

\* mutant: add_regressor without the duplicate check
AddRegressor_NoDuplicateCheck(regs, name, prior_scale, standardize) ==
    Append(regs, [name |-> name, prior_scale |-> prior_scale,
                  standardize |-> standardize])

\* add_regressor
AddRegressor(regs, name, prior_scale, standardize) ==
    IF ~HasRegressor(regs, name)
    THEN Append(regs, [name |-> name, prior_scale |-> prior_scale,
                       standardize |-> standardize])
    ELSE regs

DefaultPriorScale == 10
WeatherPriorScale == 5
FestivalPriorScale == 15

\* add_regressors
RECURSIVE AddRegressors(_, _)
AddRegressors(regs, names) ==
    IF names = <<>> THEN regs
    ELSE AddRegressors(AddRegressor(regs, Head(names), DefaultPriorScale, TRUE),
                       Tail(names))

\* Series.unique(): the distinct cells of column[1..k] in order of first
\* appearance
RECURSIVE Unique(_, _)
Unique(column, k) ==
    IF k = 0 THEN <<>>
    ELSE LET u == Unique(column, k - 1)
         IN  IF \E j \in 1..Len(u) : u[j] = column[k] THEN u
             ELSE Append(u, column[k])

\* (df[weather_column] == category).astype(int)
IndicatorColumn(df, category) ==
    LET weather == Col(df, S_weather)
        Cell(i) == Val(IF weather[i] = Val(category) THEN 1 ELSE 0)
    IN  MakeColumn(df.n, Cell)

\* the loop of encode_weather_data over weather_categories[k..]
RECURSIVE EncodeLoop(_, _, _, _, _)
EncodeLoop(regs, encoded, df, cats, k) ==
    IF k > Len(cats) THEN [regs |-> regs, df |-> encoded]
    ELSE IF NotNA(cats[k])
         THEN LET category == cats[k][1]
                  name == WeatherColumnName(category)
              IN  EncodeLoop(AddRegressor(regs, name, WeatherPriorScale, TRUE),
                             SetColumn(encoded, name, IndicatorColumn(df, category)),
                             df, cats, k + 1)
         ELSE EncodeLoop(regs, encoded, df, cats, k + 1)

\* encode_weather_data: the registered regressors and the returned frame
EncodeWeatherData(regs, df) ==
    IF ~HasColumn(df, S_weather) THEN [regs |-> regs, df |-> df]
    ELSE EncodeLoop(regs, df, df, Unique(Col(df, S_weather), df.n), 1)

-----------------------------------------------------------------------------
(* ProphetModelManager: training *)

HasNA(column) == \E i \in 1..Len(column) : column[i] = NA

AllNA(column) == \A i \in 1..Len(column) : column[i] = NA

\* Series.median() of an integer column, missing cells skipped (the lower
\* of the two middle values when their number is even)
Median(column) ==
    LET present == {i \in 1..Len(column) : NotNA(column[i])}
        values  == {column[i][1] : i \in present}
        AtMost(v)  == Cardinality({i \in present : column[i][1] <= v})
        AtLeast(v) == Cardinality({i \in present : column[i][1] >= v})
        Middle(v) == /\ 2 * AtMost(v) >= Cardinality(present)
                     /\ 2 * AtLeast(v) >= Cardinality(present)
    IN  CHOOSE v \in values : Middle(v) /\ \A w \in values : Middle(w) => v <= w

\* Series.fillna(value)
FillNA(column, value) ==
    LET Cell(i) == IF column[i] = NA THEN Val(value) ELSE column[i]
    IN  MakeColumn(Len(column), Cell)

\* the fill loop of preprocess_regressors over regs[k..]; the median of a
\* column without any value is itself missing and fills nothing
RECURSIVE FillLoop(_, _, _)
FillLoop(regs, df, k) ==
    IF k > Len(regs) THEN df
    ELSE LET name == regs[k].name
         IN  IF HasColumn(df, name) /\ HasNA(Col(df, name))
                  /\ (\E i \in 1..df.n : NotNA(Col(df, name)[i]))
             THEN FillLoop(regs,
                           SetColumn(df, name,
                                     FillNA(Col(df, name), Median(Col(df, name)))),
                           k + 1)
             ELSE FillLoop(regs, df, k + 1)

\* preprocess_regressors: astype(int) raises on a missing festival_flag,
\* before anything is registered
PreprocessRegressors(regs, df) ==
    IF HasColumn(df, S_festival_flag) /\ HasNA(Col(df, S_festival_flag))
    THEN [raised |-> TRUE, regs |-> regs, df |-> df]
    ELSE LET regs1 == IF HasColumn(df, S_festival_flag)
                      THEN AddRegressor(regs, S_festival_flag, FestivalPriorScale, TRUE)
                      ELSE regs
             enc   == IF HasColumn(df, S_weather)
                      THEN EncodeWeatherData(regs1, df)
                      ELSE [regs |-> regs1, df |-> df]
         IN  [raised |-> FALSE, regs |-> enc.regs,
              df |-> FillLoop(enc.regs, enc.df, 1)]

\* validate_regressor_data: every registered regressor is a column of df
ValidateRegressorData(regs, df) ==
    \A i \in 1..Len(regs) : HasColumn(df, regs[i].name)

\* row order of sort_values('ds') for rows 1..k: stable insertion of row k
RECURSIVE SortedRows(_, _)
SortedRows(ds, k) ==
    IF k = 0 THEN <<>>
    ELSE LET prev == SortedRows(ds, k - 1)
             pos  == Cardinality({j \in 1..Len(prev) : ds[prev[j]][1] <= ds[k][1]})
         IN  SubSeq(prev, 1, pos) \o <<k>> \o SubSeq(prev, pos + 1, Len(prev))

\* DataFrame rows taken in the given order
Reorder(df, order) ==
    LET Column(k) == [name |-> df.cols[k].name,
                      data |-> LET Cell(i) == df.cols[k].data[order[i]]
                               IN  MakeColumn(df.n, Cell)]
    IN  [df EXCEPT !.cols = MakeColumn(Len(df.cols), Column)]

\* prepare_prophet_dataframe: adds ds = date + hour and y, sorts by ds
PrepareProphetDataframe(df) ==
    LET date  == Col(df, S_date)
        Ds(i) == Val(date[i][1] * HoursPerDay
                     + (IF HasColumn(df, S_hour) THEN Col(df, S_hour)[i][1] ELSE 0))
        ds    == MakeColumn(df.n, Ds)
        withY == SetColumn(SetColumn(df, S_ds, ds), S_y, Col(df, S_visitors))
    IN  Reorder(withY, SortedRows(ds, df.n))

NoModel == [exists |-> FALSE, fitted |-> FALSE, extra_regressors |-> <<>>,
            history |-> <<>>]

\* _create_model: a new, unfitted Prophet object with the registered regressors
CreateModel(regs) ==
    [exists |-> TRUE, fitted |-> FALSE, extra_regressors |-> regs, history |-> <<>>]

\* Prophet.fit on success: the object keeps the history timestamps
Fit(m, prophet_df) ==
    LET ds == Col(prophet_df, S_ds)
        Stamp(i) == ds[i][1]
    IN  [m EXCEPT !.fitted = TRUE, !.history = MakeColumn(prophet_df.n, Stamp)]

\* mutant: the minimum data check is off by one
InsufficientData_OffByOne(df) == df.n <= MinTrainingRows

\* the minimum data check of train_model
InsufficientData(df) == df.n < MinTrainingRows

\* mutant: the not-trained check is missing
ModelIsNone_NoCheck(m) == FALSE

\* self.model is None
ModelIsNone(m) == ~m.exists

\* train_model(df) on the table chosen by t; fitOk is the outcome of Prophet.fit
TrainModel(t, fitOk) ==
  LET df == TableOf(t) IN
    /\ lastOp' = "train_model"
    /\ lastArg' = [table |-> t, fitOk |-> fitOk]
    /\ trainCalled' = TRUE
    /\ returned' = NoFrame
    /\ IF InsufficientData(df)
       THEN /\ lastResult' = "InsufficientData"
            /\ UNCHANGED <<model, regressors, trainReturned>>
       ELSE LET pre == PreprocessRegressors(regressors, df)
            IN  IF pre.raised
                THEN /\ lastResult' = "CastError"
                     /\ UNCHANGED <<model, regressors, trainReturned>>
                ELSE /\ regressors' = pre.regs
                     /\ IF ~ValidateRegressorData(pre.regs, pre.df)
                        THEN /\ lastResult' = "RegressorValidationFailed"
                             /\ UNCHANGED <<model, trainReturned>>
                        ELSE LET prophet_df == PrepareProphetDataframe(pre.df)
                                 created    == CreateModel(pre.regs)
                             IN  IF fitOk
                                 THEN /\ model' = Fit(created, prophet_df)
                                      /\ lastResult' = "ok"
                                      /\ trainReturned' = TRUE
                                 ELSE /\ model' = created
                                      /\ lastResult' = "TrainingFailed"
                                      /\ UNCHANGED trainReturned

-----------------------------------------------------------------------------
(* ProphetModelManager: future frame *)

\* Prophet.make_future_dataframe(periods, freq='H'): the history timestamps
\* followed by the next `periods` hours
MakeFutureDataframe(m, periods) ==
    LET h     == m.history
        n     == Len(h) + periods
        Ds(i) == Val(IF i <= Len(h) THEN h[i] ELSE h[Len(h)] + (i - Len(h)))
    IN  [n |-> n, cols |-> << [name |-> S_ds, data |-> MakeColumn(n, Ds)] >>]

\* mutant: the festival default is 1
DefaultRegressorValue_FestivalOn(name) ==
    IF Contains(Lower(name), S_festival) THEN 1
    ELSE IF Contains(Lower(name), S_weather)
         THEN IF Contains(Lower(name), S_sunny) THEN 1 ELSE 0
         ELSE 0

\* the default _fill_future_regressors gives the column `name`
DefaultRegressorValue(name) ==
    IF Contains(Lower(name), S_festival) THEN 0
    ELSE IF Contains(Lower(name), S_weather)
         THEN IF Contains(Lower(name), S_sunny) THEN 1 ELSE 0
         ELSE 0

\* a column of n cells holding v
ConstantColumn(n, v) == LET Cell(i) == Val(v) IN MakeColumn(n, Cell)

\* _fill_future_regressors over regs[k..]
RECURSIVE FillFutureRegressors(_, _, _)
FillFutureRegressors(regs, future_df, k) ==
    IF k > Len(regs) THEN future_df
    ELSE LET name == regs[k].name
         IN  IF ~HasColumn(future_df, name)
             THEN FillFutureRegressors(
                      regs,
                      SetColumn(future_df, name,
                                ConstantColumn(future_df.n, DefaultRegressorValue(name))),
                      k + 1)
             ELSE FillFutureRegressors(regs, future_df, k + 1)

\* the index-based branch of _merge_future_regressors over regs[k..]
RECURSIVE CopyByIndex(_, _, _, _)
CopyByIndex(regs, future_df, future_regressors, k) ==
    IF k > Len(regs) THEN future_df
    ELSE LET name == regs[k].name
         IN  IF HasColumn(future_regressors, name)
             THEN CopyByIndex(regs,
                              SetColumn(future_df, name, Col(future_regressors, name)),
                              future_regressors, k + 1)
             ELSE CopyByIndex(regs, future_df, future_regressors, k + 1)

\* column k of future_regressors aligned on the ds of future_df
MergedColumn(future_df, future_regressors, k) ==
    LET left  == Col(future_df, S_ds)
        right == Col(future_regressors, S_ds)
        Match(i) == {j \in 1..future_regressors.n : right[j] = left[i]}
        Cell(i) == IF Match(i) = {} THEN NA
                   ELSE future_regressors.cols[k].data[CHOOSE j \in Match(i) : TRUE]
    IN  [name |-> future_regressors.cols[k].name,
         data |-> MakeColumn(future_df.n, Cell)]

RECURSIVE MergeLoop(_, _, _, _)
MergeLoop(cols, future_df, future_regressors, k) ==
    IF k > Len(future_regressors.cols) THEN cols
    ELSE IF future_regressors.cols[k].name # S_ds
    THEN MergeLoop(Append(cols, MergedColumn(future_df, future_regressors, k)),
                   future_df, future_regressors, k + 1)
    ELSE MergeLoop(cols, future_df, future_regressors, k + 1)

\* future_df.merge(future_regressors, on='ds', how='left'), the timestamps
\* of future_regressors being distinct and ds the only shared column
MergeOnDs(future_df, future_regressors) ==
    [n |-> future_df.n,
     cols |-> MergeLoop(future_df.cols, future_df, future_regressors, 1)]

\* assigning a column of another length raises
IndexMergeRaises(regs, future_df, future_regressors) ==
    /\ ~HasColumn(future_regressors, S_ds)
    /\ future_regressors.n # future_df.n
    /\ \E k \in 1..Len(regs) : HasColumn(future_regressors, regs[k].name)

\* _merge_future_regressors
MergeFutureRegressors(regs, future_df, future_regressors) ==
    IF ~HasColumn(future_regressors, S_ds)
    THEN CopyByIndex(regs, future_df, future_regressors, 1)
    ELSE MergeOnDs(future_df, future_regressors)

\* The future_regressors argument: None, or a frame described by
\*   withDs   - it has a ds column
\*   allRows  - it has a row for every row of the future frame (else only
\*              for the new periods)
\*   allNames - it has a column for every registered regressor and for the
\*              temperature (else only for the festival flag)
NoFutureRegressors == [supplied |-> FALSE, withDs |-> FALSE, allRows |-> FALSE,
                       allNames |-> FALSE]

SuppliedFutureRegressors ==
    [supplied : {TRUE}, withDs : BOOLEAN, allRows : BOOLEAN, allNames : BOOLEAN]

\* the frame the caller supplies under `choice` for the frame future_df whose
\* last `periods` rows are new
FutureRegressorsFrame(choice, regs, future_df, periods) ==
    LET first == IF choice.allRows THEN 1 ELSE future_df.n - periods + 1
        n     == future_df.n - first + 1
        ds    == Col(future_df, S_ds)
        Ds(i) == ds[first + i - 1]
        Value(i) == Val(i % 2)
        Named(name) == [name |-> name, data |-> MakeColumn(n, Value)]
        Registered(k) == Named(regs[k].name)
    IN  [n |-> n,
         cols |-> (IF choice.withDs
                   THEN << [name |-> S_ds, data |-> MakeColumn(n, Ds)] >>
                   ELSE <<>>)
                  \o (IF choice.allNames
                      THEN MakeColumn(Len(regs), Registered) \o <<Named(S_temperature)>>
                      ELSE <<Named(S_festival_flag)>>)]

\* generate_future_dataframe(periods, future_regressors)
GenerateFutureDataframe(periods, choice) ==
    /\ lastOp' = "generate_future_dataframe"
    /\ lastArg' = [periods |-> periods, future_regressors |-> choice]
    /\ UNCHANGED <<model, regressors, trainCalled, trainReturned>>
    /\ IF ModelIsNone(model)
       THEN /\ lastResult' = "NotTrained"
            /\ returned' = NoFrame
       ELSE IF ~model.fitted
       THEN /\ lastResult' = "ModelNotFit"
            /\ returned' = NoFrame
       ELSE LET future_df == MakeFutureDataframe(model, periods)
                fr == FutureRegressorsFrame(choice, regressors, future_df, periods)
            IN  IF ~choice.supplied
                THEN /\ lastResult' = "ok"
                     /\ returned' = FillFutureRegressors(regressors, future_df, 1)
                ELSE IF IndexMergeRaises(regressors, future_df, fr)
                THEN /\ lastResult' = "LengthMismatch"
                     /\ returned' = NoFrame
                ELSE /\ lastResult' = "ok"
                     /\ returned' = MergeFutureRegressors(regressors, future_df, fr)

-----------------------------------------------------------------------------
(* ProphetModelManager: predictions.  Forecast values count thousandths.   *)

\* numpy round(): to the nearest integer, a tie to the even one
RoundToInt(x) ==
    LET q == x \div 1000
        r == x % 1000
    IN  IF r < 500 THEN q
        ELSE IF r > 500 THEN q + 1
        ELSE IF q % 2 = 0 THEN q ELSE q + 1

\* mutant: the clipping is missing
ClipLower_NoClip(v) == v

\* Series.clip(lower=0)
ClipLower(v) == IF v < 0 THEN 0 ELSE v

\* Prophet.predict raises: the model is not fitted, the frame has no rows or
\* no ds, or a regressor column of the model is absent or has a missing cell
PredictRaises(m, future_df) ==
    \/ ~m.fitted
    \/ future_df.n = 0
    \/ ~HasColumn(future_df, S_ds)
    \/ \E k \in 1..Len(m.extra_regressors) :
          LET name == m.extra_regressors[k].name
          IN  \/ ~HasColumn(future_df, name)
              \/ HasNA(Col(future_df, name))

\* the frame make_predictions returns for the raw output raw (row i of the
\* model's output is <<yhat_lower, yhat, yhat_upper>> = Cyclic(raw, i))
PredictionFrame(future_df, raw) ==
    LET n == future_df.n
        YhatLower(i) == Val(Cyclic(raw, i)[1])
        Yhat(i)      == Val(Cyclic(raw, i)[2])
        YhatUpper(i) == Val(Cyclic(raw, i)[3])
        LowerB(i)    == Val(ClipLower(RoundToInt(Cyclic(raw, i)[1])))
        Predicted(i) == Val(ClipLower(RoundToInt(Cyclic(raw, i)[2])))
        UpperB(i)    == Val(ClipLower(RoundToInt(Cyclic(raw, i)[3])))
    IN  [n |-> n,
         cols |-> << [name |-> S_ds,         data |-> Col(future_df, S_ds)],
                     [name |-> S_yhat_lower, data |-> MakeColumn(n, YhatLower)],
                     [name |-> S_yhat,       data |-> MakeColumn(n, Yhat)],
                     [name |-> S_yhat_upper, data |-> MakeColumn(n, YhatUpper)],
                     [name |-> S_predicted_visitors, data |-> MakeColumn(n, Predicted)],
                     [name |-> S_lower_bound, data |-> MakeColumn(n, LowerB)],
                     [name |-> S_upper_bound, data |-> MakeColumn(n, UpperB)] >>]

\* make_predictions(future_df); raw is the output of Prophet.predict
MakePredictions(future_df, raw) ==
    /\ lastOp' = "make_predictions"
    /\ lastArg' = [raw |-> raw]
    /\ UNCHANGED <<model, regressors, trainCalled, trainReturned>>
    /\ IF ModelIsNone(model)
       THEN /\ lastResult' = "NotTrained"
            /\ returned' = NoFrame
       ELSE IF PredictRaises(model, future_df)
       THEN /\ lastResult' = "PredictionFailed"
            /\ returned' = NoFrame
       ELSE /\ lastResult' = "ok"
            /\ returned' = PredictionFrame(future_df, raw)

\* get_model_info()['is_trained']
IsTrained(m) == ~ModelIsNone(m)

-----------------------------------------------------------------------------
(* ExportManager *)

\* round(x, 2) of a value counting thousandths, a tie to the even hundredth
RoundTo2(x) ==
    LET q == x \div 10
        r == x % 10
    IN  10 * (IF r < 5 THEN q
              ELSE IF r > 5 THEN q + 1
              ELSE IF q % 2 = 0 THEN q ELSE q + 1)

RequiredExportColumns == {S_ds, S_yhat, S_yhat_lower, S_yhat_upper}

DigitChars == <<"0","1","2","3","4","5","6","7","8","9">>

\* the last `width` decimal digits of n, as text
RECURSIVE ZeroPadded(_, _)
ZeroPadded(n, width) ==
    IF width = 0 THEN <<>>
    ELSE Append(ZeroPadded(n \div 10, width - 1), DigitChars[(n % 10) + 1])

\* mutant: the text carries the date only
Isoformat_DateOnly(ds) == ZeroPadded(ds \div HoursPerDay, 4)

\* Timestamp.isoformat() of a whole hour: the date (a day number in this
\* model), "T", and the time of day
Isoformat(ds) ==
    ZeroPadded(ds \div HoursPerDay, 4) \o <<"T">> \o ZeroPadded(ds % HoursPerDay, 2)
        \o <<":","0","0",":","0","0">>

\* one prediction record of format_predictions_json
PredictionRecord(predictions, i) ==
    [timestamp |-> Isoformat(Col(predictions, S_ds)[i][1]),
     predicted_visitors |-> RoundTo2(Col(predictions, S_yhat)[i][1]),
     lower_bound |-> RoundTo2(Col(predictions, S_yhat_lower)[i][1]),
     upper_bound |-> RoundTo2(Col(predictions, S_yhat_upper)[i][1])]

\* the metadata of format_predictions_json
ExportMetadata(predictions) ==
    LET ds == {Col(predictions, S_ds)[i][1] : i \in 1..predictions.n}
    IN  [total_predictions |-> predictions.n,
         prediction_period |->
            [start |-> Isoformat(CHOOSE t \in ds : \A u \in ds : t <= u),
             end   |-> Isoformat(CHOOSE t \in ds : \A u \in ds : t >= u)]]

\* format_predictions_json(predictions)
FormatPredictionsJson(predictions) ==
    /\ lastOp' = "format_predictions_json"
    /\ lastArg' = [predictions |-> predictions]
    /\ UNCHANGED <<model, regressors, trainCalled, trainReturned>>
    /\ IF ~(RequiredExportColumns \subseteq Columns(predictions)) \/ predictions.n = 0
       THEN /\ lastResult' = "ExportError"
            /\ returned' = NoFrame
       ELSE /\ lastResult' = "ok"
            /\ returned' = LET Record(i) == PredictionRecord(predictions, i)
                           IN  [n |-> predictions.n,
                                metadata |-> ExportMetadata(predictions),
                                predictions |-> MakeColumn(predictions.n, Record)]

-----------------------------------------------------------------------------
(* The public bookkeeping methods called directly *)

\* add_regressor(name, prior_scale, standardize)
AddRegressorCall(name, prior_scale, standardize) ==
    /\ lastOp' = "add_regressor"
    /\ lastArg' = [name |-> name, prior_scale |-> prior_scale,
                   standardize |-> standardize]
    /\ lastResult' = "ok"
    /\ returned' = NoFrame
    /\ regressors' = AddRegressor(regressors, name, prior_scale, standardize)
    /\ UNCHANGED <<model, trainCalled, trainReturned>>

\* add_regressors(regressor_names)
AddRegressorsCall(names) ==
    /\ lastOp' = "add_regressors"
    /\ lastArg' = names
    /\ lastResult' = "ok"
    /\ returned' = NoFrame
    /\ regressors' = AddRegressors(regressors, names)
    /\ UNCHANGED <<model, trainCalled, trainReturned>>

\* encode_weather_data(df)
EncodeWeatherDataCall(t) ==
    LET enc == EncodeWeatherData(regressors, TableOf(t))
    IN  /\ lastOp' = "encode_weather_data"
        /\ lastArg' = [table |-> t]
        /\ lastResult' = "ok"
        /\ regressors' = enc.regs
        /\ returned' = enc.df
        /\ UNCHANGED <<model, trainCalled, trainReturned>>

\* preprocess_regressors(df)
PreprocessRegressorsCall(t) ==
    LET pre == PreprocessRegressors(regressors, TableOf(t))
    IN  /\ lastOp' = "preprocess_regressors"
        /\ lastArg' = [table |-> t]
        /\ UNCHANGED <<model, trainCalled, trainReturned>>
        /\ IF pre.raised
           THEN /\ lastResult' = "CastError"
                /\ returned' = NoFrame
                /\ UNCHANGED regressors
           ELSE /\ lastResult' = "ok"
                /\ regressors' = pre.regs
                /\ returned' = pre.df

-----------------------------------------------------------------------------
(* The manager and its callers.  A caller hands make_predictions the frame *)
(* it has just been returned, and format_predictions_json the forecast it  *)
(* has just been returned.                                                 *)

ReturnedFrame(ops) ==
    IF lastOp \in ops /\ lastResult = "ok" THEN returned ELSE NoFrame

FrameReturningOps == {"generate_future_dataframe", "encode_weather_data",
                      "preprocess_regressors"}

\* __init__
Init ==
    /\ model = NoModel
    /\ regressors = <<>>
    /\ lastOp = "__init__"
    /\ lastResult = "ok"
    /\ lastArg = <<>>
    /\ returned = NoFrame
    /\ trainCalled = FALSE
    /\ trainReturned = FALSE

\* configurations passed to add_regressor
ManualConfigs == { [prior_scale |-> DefaultPriorScale, standardize |-> TRUE],
                   [prior_scale |-> 2 * DefaultPriorScale, standardize |-> FALSE] }

FutureRegressorChoices == {NoFutureRegressors} \cup SuppliedFutureRegressors

(* Life cycle of a manager: training, future frames, predictions *)

Tables ==
    [n : RowCounts, weather : {W_sunny}, festival : {F_flags}]
    \cup [n : {MinTrainingRows}, weather : {W_sunny_rainy, W_mixed_case},
          festival : {F_flags}]
    \cup [n : {MinTrainingRows}, weather : {W_sunny}, festival : {F_missing}]

\* raw outputs of Prophet.predict, <<yhat_lower, yhat, yhat_upper>> per row
RawOutputs == { << <<500, 1500, 2500>>, <<-2600, -1400, -400>> >> }

Next ==
    \/ \E t \in Tables, fitOk \in BOOLEAN : TrainModel(t, fitOk)
    \/ \E periods \in 0..MaxPeriods, choice \in FutureRegressorChoices :
          GenerateFutureDataframe(periods, choice)
    \/ \E raw \in RawOutputs : MakePredictions(ReturnedFrame(FrameReturningOps), raw)
    \/ \E cfg \in ManualConfigs :
          AddRegressorCall(S_temperature, cfg.prior_scale, cfg.standardize)

Spec == Init /\ [][Next]_vars

(* Regressor bookkeeping: every method that registers regressors *)

RegistryTables ==
    [n : {MinTrainingRows}, weather : {W_sunny_rainy, W_mixed_case},
     festival : {F_flags}]
    \cup [n : {MinTrainingRows}, weather : {W_sunny_rainy}, festival : {F_missing}]

RegistryNameLists == { <<WeatherColumnName(S_sunny), WeatherColumnName(S_sunny)>> }

NextRegistry ==
    \/ \E cfg \in ManualConfigs :
          AddRegressorCall(S_festival_flag, cfg.prior_scale, cfg.standardize)
    \/ \E names \in RegistryNameLists : AddRegressorsCall(names)
    \/ \E t \in RegistryTables : EncodeWeatherDataCall(t)
    \/ \E t \in RegistryTables : PreprocessRegressorsCall(t)
    \/ \E t \in RegistryTables : TrainModel(t, TRUE)

SpecRegistry == Init /\ [][NextRegistry]_vars

(* Forecast values: one training table, many raw outputs of the model *)

ForecastTables == [n : {MinTrainingRows}, weather : {W_sunny}, festival : {F_flags}]

RawValues == {-1500, -500, -4, 4, 500, 1500, 2500}

RawTriples == RawValues \X RawValues \X RawValues

ForecastOutputs == { <<r>> : r \in RawTriples }
                   \cup { << <<-125, 375, 1496>>, <<-2504, -1500, 125>> >> }

NextForecast ==
    \/ \E t \in ForecastTables, fitOk \in BOOLEAN : TrainModel(t, fitOk)
    \/ \E periods \in 0..MaxPeriods : GenerateFutureDataframe(periods, NoFutureRegressors)
    \/ \E raw \in ForecastOutputs :
          MakePredictions(ReturnedFrame(FrameReturningOps), raw)
    \/ FormatPredictionsJson(ReturnedFrame({"make_predictions"}))

SpecForecast == Init /\ [][NextForecast]_vars

-----------------------------------------------------------------------------
(* DataProcessor (temple-crowd-prediction/src/data_processor.py).           *)
(* A visitors cell counts eighths of a visitor, so that the quartiles of    *)
(* whole counts and the bounds at 1.5 and 3 times their distance are exact. *)

\* the frame the caller passed in, after a stage that worked on processed_df:
\* every stage works on df.copy()
ArgumentAfter_Alias(df, processed_df) == processed_df

ArgumentAfter(df, processed_df) == df

\* the element of a set of one element
Only(S) == CHOOSE x \in S : TRUE

\* the non-missing values of the first k cells, in increasing order
SortedValues(column, k) ==
    LET present  == {i \in 1..k : column[i] # NA}
        Rank(i)  == Cardinality({j \in present :
                        \/ column[j][1] < column[i][1]
                        \/ column[j][1] = column[i][1] /\ j <= i})
        Value(p) == column[CHOOSE i \in present : Rank(i) = p][1]
    IN  MakeColumn(Cardinality(present), Value)

\* Series.quantile(quarters / 4) by linear interpolation between neighbours
Quantile(sorted, quarters) ==
    LET p    == quarters * (Len(sorted) - 1)
        low  == sorted[(p \div 4) + 1]
    IN  IF p % 4 = 0 THEN low
        ELSE low + ((p % 4) * (sorted[(p \div 4) + 2] - low)) \div 4

\* max(0, lower_bound)
SafeLowerBound(lower_bound) == IF lower_bound < 0 THEN 0 ELSE lower_bound

\* mutant: only values beyond twice as many IQRs are extreme
ExtremeFactor_Wider == 3 + 3

\* the factor of the extreme outlier mask (3 * IQR)
ExtremeFactor == 3

\* the capping of detect_outliers, given the quartiles of the column
CapOutliers(df, Q1, Q3, intColumn, upcast) ==
    LET visitors == Col(df, S_visitors)
        IQR == Q3 - Q1
        lower_bound == Q1 - (3 * IQR) \div 2
        upper_bound == Q3 + (3 * IQR) \div 2
        Outlier(c) == NotNA(c) /\ (c[1] < lower_bound \/ c[1] > upper_bound)
        Low(c)     == NotNA(c) /\ c[1] < Q1 - ExtremeFactor * IQR
        High(c)    == NotNA(c) /\ c[1] > Q3 + ExtremeFactor * IQR
        outlier_count == Cardinality({i \in 1..df.n : Outlier(visitors[i])})
        extreme_outlier_count ==
            Cardinality({i \in 1..df.n : Low(visitors[i]) \/ High(visitors[i])})
        safe_lower_bound == SafeLowerBound(lower_bound)
        AfterLow(i) == IF Low(visitors[i]) THEN Val(safe_lower_bound) ELSE visitors[i]
        lowCapped   == MakeColumn(df.n, AfterLow)
        AfterHigh(i) == IF High(AfterLow(i)) THEN Val(upper_bound) ELSE AfterLow(i)
        capped      == MakeColumn(df.n, AfterHigh)
        lowFails  == /\ intColumn /\ ~upcast /\ safe_lower_bound % 8 # 0
                     /\ \E i \in 1..df.n : Low(visitors[i])
        highFails == /\ intColumn /\ ~upcast /\ upper_bound % 8 # 0
                     /\ \E i \in 1..df.n : High(AfterLow(i))
    IN  IF outlier_count = 0 \/ extreme_outlier_count = 0
        THEN [raised |-> FALSE, df |-> df, arg |-> ArgumentAfter(df, df)]
        ELSE IF lowFails
        THEN [raised |-> TRUE, df |-> NoFrame, arg |-> ArgumentAfter(df, df)]
        ELSE IF highFails
        THEN [raised |-> TRUE, df |-> NoFrame,
              arg |-> ArgumentAfter(df, SetColumn(df, S_visitors, lowCapped))]
        ELSE [raised |-> FALSE, df |-> SetColumn(df, S_visitors, capped),
              arg |-> ArgumentAfter(df, SetColumn(df, S_visitors, capped))]

\* detect_outliers(df).  intColumn: the visitors column has an integer dtype;
\* upcast: assigning a fractional cap to an integer column converts the
\* column (it raises otherwise)
DetectOutliers(df, intColumn, upcast) ==
    IF ~HasColumn(df, S_visitors) \/ AllNA(Col(df, S_visitors))
    THEN [raised |-> FALSE, df |-> df, arg |-> ArgumentAfter(df, df)]
    ELSE Only({ CapOutliers(df, Quantile(sorted, 1), Quantile(sorted, 3),
                            intColumn, upcast) :
                sorted \in {SortedValues(Col(df, S_visitors), df.n)} })

\* detect_outliers called by the pipeline or a test
DetectOutliersCall(df, intColumn, upcast) ==
    \E out \in {DetectOutliers(df, intColumn, upcast)} :
        /\ lastOp' = "detect_outliers"
        /\ lastArg' = [before |-> df, after |-> out.arg]
        /\ lastResult' = IF out.raised THEN "TypeError" ELSE "ok"
        /\ returned' = out.df
        /\ UNCHANGED <<model, regressors, trainCalled, trainReturned>>

(* Outlier handling on tables of whole visitor counts *)

\* largest number of rows of a table handed to detect_outliers
MaxOutlierRows == 5

VisitorCounts == {-1000, -10, 0, 12, 50, 1000}

OutlierTables ==
    { [n |-> Len(v),
       cols |-> << [name |-> S_hour,
                    data |-> [i \in 1..Len(v) |-> Val(i - 1)]],
                   [name |-> S_visitors,
                    data |-> [i \in 1..Len(v) |-> Val(8 * v[i])]] >>] :
      v \in UNION { [1..n -> VisitorCounts] : n \in 4..MaxOutlierRows } }

\* a new manager, and the caller holds the table load_csv has returned
InitLoaded(tables) ==
    /\ model = NoModel
    /\ regressors = <<>>
    /\ lastOp = "load_csv"
    /\ lastResult = "ok"
    /\ lastArg = <<>>
    /\ returned \in tables
    /\ trainCalled = FALSE
    /\ trainReturned = FALSE

NextOutliers ==
    \E upcast \in BOOLEAN :
        lastOp = "load_csv" /\ DetectOutliersCall(returned, TRUE, upcast)

SpecOutliers == InitLoaded(OutlierTables) /\ [][NextOutliers]_vars

-----------------------------------------------------------------------------
(* DataProcessor: text cells *)

\* characters in the order of their code points
CharOrder == <<" ", "-", ".", "/", "0", "1", "2", "3", "4", "5", "6", "7", "8", "9">>
             \o UpperChars \o <<"_">> \o LowerChars

CharRank(c) == CHOOSE i \in 1..Len(CharOrder) : CharOrder[i] = c

\* s < t for Python strings
StrLess(s, t) ==
    \E k \in 1..(Len(t)) :
        /\ \A j \in 1..(k - 1) : j <= Len(s) /\ s[j] = t[j]
        /\ \/ k = Len(s) + 1
           \/ k <= Len(s) /\ CharRank(s[k]) < CharRank(t[k])

\* str.strip()
Strip(s) ==
    LET kept == {i \in 1..Len(s) : s[i] # " "}
    IN  IF kept = {} THEN <<>>
        ELSE SubSeq(s, CHOOSE i \in kept : \A j \in kept : i <= j,
                       CHOOSE i \in kept : \A j \in kept : j <= i)

S_nan     == <<"n","a","n">>
S_unknown == <<"u","n","k","n","o","w","n">>

\* the value of a run of decimal digits, -1 when a character is no digit
RECURSIVE Number(_)
Number(s) ==
    IF s = <<>> THEN 0
    ELSE LET c    == s[Len(s)]
             rest == Number(SubSeq(s, 1, Len(s) - 1))
         IN  IF rest < 0 \/ CharRank(c) < CharRank("0") \/ CharRank(c) > CharRank("9")
             THEN -1
             ELSE 10 * rest + (CharRank(c) - CharRank("0"))

-----------------------------------------------------------------------------
(* DataProcessor: dates.  A parsed date is a Timestamp <<t>>, which no text *)
(* equals, of the number t = 372 * (year - 2000) + 31 * (month - 1)         *)
(* + (day - 1), which keeps the order of the calendar.                     *)

\* date_formats of _parse_datetime: a directive Y, m or d, or a separator
DateFormats ==
    << <<"Y", "-", "m", "-", "d">>,
       <<"m", "/", "d", "/", "Y">>,
       <<"d", "/", "m", "/", "Y">>,
       <<"Y", "/", "m", "/", "d">>,
       <<"m", "-", "d", "-", "Y">>,
       <<"d", "-", "m", "-", "Y">>,
       <<"Y", "m", "d">> >>

\* a format pandas' automatic parsing accepts and date_formats does not list
AutomaticFormat == <<"Y", ".", "m", ".", "d">>

\* the fields of s read under format from its k-th directive on: a record
\* [ok, Y, m, d], fields of zero-padded width 4, 2 and 2
RECURSIVE ReadFields(_, _, _, _)
ReadFields(format, k, s, fields) ==
    IF k > Len(format) THEN [fields EXCEPT !.ok = (s = <<>>)]
    ELSE LET width == IF format[k] = "Y" THEN 4
                      ELSE IF format[k] \in {"m", "d"} THEN 2 ELSE 1
         IN  IF Len(s) < width THEN [fields EXCEPT !.ok = FALSE]
             ELSE LET token == SubSeq(s, 1, width)
                      rest  == SubSeq(s, width + 1, Len(s))
                  IN  IF format[k] \in {"Y", "m", "d"}
                      THEN IF Number(token) < 0 THEN [fields EXCEPT !.ok = FALSE]
                           ELSE ReadFields(format, k + 1, rest,
                                           [fields EXCEPT ![format[k]] = Number(token)])
                      ELSE IF token = <<format[k]>>
                           THEN ReadFields(format, k + 1, rest, fields)
                           ELSE [fields EXCEPT !.ok = FALSE]

\* pd.to_datetime(cell, format=format, errors='coerce') for one cell
ToDatetime(cell, format) ==
    IF cell = NA THEN NA
    ELSE Only({
        LET days == IF f.m = 2 THEN (IF f.Y % 4 = 0 THEN 29 ELSE 28)
                    ELSE IF f.m \in {4, 6, 9, 11} THEN 30 ELSE 31
        IN  IF f.ok /\ f.Y >= 1 /\ f.m \in 1..12 /\ f.d >= 1 /\ f.d <= days
            THEN Val(<<372 * (f.Y - 2000) + 31 * (f.m - 1) + (f.d - 1)>>)
            ELSE NA :
        f \in {ReadFields(format, 1, cell[1], [ok |-> TRUE, Y |-> 0, m |-> 0, d |-> 0])} })

\* the date column parsed under format
ParsedDates(column, format) ==
    LET Cell(i) == ToDatetime(column[i], format)
    IN  MakeColumn(Len(column), Cell)

\* mutant: a format is adopted only when it parses every value
FormatSucceeds_AllValues(parsed) == ~HasNA(parsed)

\* not parsed_dates.isna().all()
FormatSucceeds(parsed) == ~AllNA(parsed)

\* the loop of _parse_datetime from the k-th format of date_formats on, then
\* automatic parsing; raises when nothing parses.  format: the index of the
\* format adopted, Len(DateFormats) + 1 for automatic parsing
RECURSIVE TryFormats(_, _)
TryFormats(df, k) ==
    IF k <= Len(DateFormats)
    THEN Only({ IF FormatSucceeds(parsed_dates)
                THEN [raised |-> FALSE, df |-> SetColumn(df, S_date, parsed_dates),
                      format |-> k]
                ELSE TryFormats(df, k + 1) :
                parsed_dates \in {ParsedDates(Col(df, S_date), DateFormats[k])} })
    ELSE Only({ IF AllNA(parsed_dates)
                THEN [raised |-> TRUE, df |-> NoFrame, format |-> 0]
                ELSE [raised |-> FALSE, df |-> SetColumn(df, S_date, parsed_dates),
                      format |-> k] :
                parsed_dates \in {ParsedDates(Col(df, S_date), AutomaticFormat)} })

\* _parse_datetime(df)
ParseDatetime(df) == TryFormats(df, 1)

-----------------------------------------------------------------------------
(* DataProcessor: validation and preprocessing.  The hour and visitors     *)
(* columns are numeric, the date, festival_flag and weather columns hold   *)
(* text.                                                                   *)

\* the tokens of bool_mapping that stand for True and for False
TrueTokens  == { <<"1">>, <<"t","r","u","e">>, <<"T","r","u","e">>,
                 <<"y","e","s">>, <<"Y","e","s">> }
FalseTokens == { <<"0">>, <<"f","a","l","s","e">>, <<"F","a","l","s","e">>,
                 <<"n","o">>, <<"N","o">> }

\* mutant: only the first violation is reported
ReportErrors_FirstOnly(validation_errors) == SubSeq(validation_errors, 1, 1)

\* the entries of the error message validate_data raises
ReportErrors(validation_errors) == validation_errors

\* validate_data(df): the entries of validation_errors, in the order of the
\* checks
ValidateData(df) ==
    LET hour     == Col(df, S_hour)
        visitors == Col(df, S_visitors)
        festival == Col(df, S_festival_flag)
        weather  == Col(df, S_weather)
        Rows(column, Bad(_)) == \E i \in 1..df.n : column[i] # NA /\ Bad(column[i][1])
        HourRange(v)   == v < 0 \/ v > 23
        Negative(v)    == v < 0
        NoBoolean(v)   == v \notin (TrueTokens \cup FalseTokens)
        Empty(v)       == Strip(v) = <<>>
        Entry(violated, name) == IF violated THEN <<name>> ELSE <<>>
    IN  ReportErrors(
            Entry(HasNA(hour), "invalid hour")
            \o Entry(Rows(hour, HourRange), "hour out of range")
            \o Entry(HasNA(visitors), "invalid visitors")
            \o Entry(Rows(visitors, Negative), "negative visitors")
            \o Entry(Rows(festival, NoBoolean), "invalid festival_flag")
            \o Entry(Rows(weather, Empty), "empty weather"))

\* _convert_to_boolean(series): unmapped values become False
ConvertToBoolean(series) ==
    LET Cell(i) == Val(series[i] # NA /\ Strip(series[i][1]) \in TrueTokens)
    IN  MakeColumn(Len(series), Cell)

\* preprocess_data(df)
PreprocessData(df) ==
    LET visitors == Col(df, S_visitors)
        weather  == Col(df, S_weather)
        Visitors(i) == IF visitors[i] = NA THEN NA ELSE Val(ClipLower(visitors[i][1]))
        Weather(i)  == Val(Lower(Strip(IF weather[i] = NA THEN S_nan ELSE weather[i][1])))
        Processed(dated) ==
            SetColumn(
                SetColumn(
                    SetColumn(dated, S_visitors, MakeColumn(df.n, Visitors)),
                    S_festival_flag, ConvertToBoolean(Col(df, S_festival_flag))),
                S_weather, MakeColumn(df.n, Weather))
    IN  Only({ IF parsed.raised
               THEN [raised |-> TRUE, df |-> NoFrame, arg |-> ArgumentAfter(df, df)]
               ELSE [raised |-> FALSE, df |-> Processed(parsed.df),
                     arg |-> ArgumentAfter(df, Processed(parsed.df))] :
               parsed \in {ParseDatetime(df)} })

-----------------------------------------------------------------------------
(* DataProcessor: missing values *)

\* the rows of df listed in order
TakeRows(df, order) ==
    LET Column(k) == [name |-> df.cols[k].name,
                      data |-> LET Cell(i) == df.cols[k].data[order[i]]
                               IN  MakeColumn(Len(order), Cell)]
    IN  [n |-> Len(order), cols |-> MakeColumn(Len(df.cols), Column)]

\* the rows 1..k whose cell is not missing, in their order
RECURSIVE PresentRows(_, _)
PresentRows(column, k) ==
    IF k = 0 THEN <<>>
    ELSE IF column[k] = NA THEN PresentRows(column, k - 1)
         ELSE Append(PresentRows(column, k - 1), k)

\* fillna(method='ffill')
ForwardFill(column) ==
    LET Cell(i) == LET before == {j \in 1..i : column[j] # NA}
                   IN  IF before = {} THEN NA
                       ELSE column[CHOOSE j \in before : \A h \in before : h <= j]
    IN  MakeColumn(Len(column), Cell)

\* Series.mode().iloc[0]: the smallest of the most frequent values, as a
\* cell; missing when the column has no value
Mode(column, Less(_, _)) ==
    LET present  == {i \in 1..Len(column) : column[i] # NA}
        Count(i) == Cardinality({j \in present : column[j] = column[i]})
        modes    == {i \in present : \A j \in present : Count(j) <= Count(i)}
    IN  IF present = {} THEN NA
        ELSE column[CHOOSE i \in modes :
                       \A j \in modes : ~Less(column[j][1], column[i][1])]

\* mutant: rows are dropped at 10% of missing dates already
TooManyMissingDates_AtTenPercent(missing_dates, rows) == 10 * missing_dates >= rows

\* missing_dates / len(processed_df) > 0.1
TooManyMissingDates(missing_dates, rows) == 10 * missing_dates > rows

\* row order of sort_values(['date', 'hour']): a missing date last, rows of
\* equal date and hour in their order
SortedByDateHour(date, hour) ==
    LET n == Len(date)
        Before(j, k) ==
            IF date[j] = NA \/ date[k] = NA
            THEN (date[j] # NA /\ date[k] = NA) \/ (date[j] = date[k] /\ j < k)
            ELSE \/ date[j][1][1] < date[k][1][1]
                 \/ /\ date[j][1] = date[k][1]
                    /\ \/ hour[j][1] < hour[k][1]
                       \/ hour[j][1] = hour[k][1] /\ j < k
        Row(p) == CHOOSE k \in 1..n : Cardinality({j \in 1..n : Before(j, k)}) = p - 1
    IN  MakeColumn(n, Row)

\* the first step of handle_missing_values: rows without a date are dropped
\* or take the date before them
FillDates(df) ==
    LET date == Col(df, S_date)
        missing_dates == Cardinality({i \in 1..df.n : date[i] = NA})
    IN  IF missing_dates = 0 THEN df
        ELSE IF TooManyMissingDates(missing_dates, df.n)
        THEN TakeRows(df, PresentRows(date, df.n))
        ELSE SetColumn(df, S_date, ForwardFill(date))

\* the second step: missing hours take the most frequent hour, else 12
FillHours(df) ==
    LET hour == Col(df, S_hour)
    IN  IF ~HasNA(hour) THEN df
        ELSE Only({ SetColumn(df, S_hour,
                              FillNA(hour, IF hour_mode = NA THEN 12 ELSE hour_mode[1])) :
                    hour_mode \in {Mode(hour, <)} })

\* the third step on a frame whose visitors column has the nullable integer
\* dtype: the rows are sorted and interpolate() is called, then the median
\* fills what is missing.  leavesIntegers: interpolate() leaves such a column
\* as it is (it raises otherwise, as it does on every other column for want
\* of a DatetimeIndex)
FillVisitors(df, leavesIntegers) ==
    LET date == Col(df, S_date)
    IN  IF ~HasNA(Col(df, S_visitors)) THEN [raised |-> FALSE, df |-> df]
        ELSE IF ~AllNA(date) /\ ~leavesIntegers THEN [raised |-> TRUE, df |-> NoFrame]
        ELSE Only({
            LET visitors == Col(sorted, S_visitors)
            IN  IF AllNA(visitors) THEN [raised |-> FALSE, df |-> sorted]
                ELSE Only({ IF median_visitors % 8 # 0
                            THEN [raised |-> TRUE, df |-> NoFrame]
                            ELSE [raised |-> FALSE,
                                  df |-> SetColumn(sorted, S_visitors,
                                                   FillNA(visitors, median_visitors))] :
                            median_visitors \in
                                {Quantile(SortedValues(visitors, sorted.n), 2)} }) :
            sorted \in {IF AllNA(date) THEN df
                        ELSE TakeRows(df, SortedByDateHour(date, Col(df, S_hour)))} })

\* the last two steps: festival_flag and weather
FillFestivalAndWeather(df) ==
    LET festival == Col(df, S_festival_flag)
        flagged  == IF HasNA(festival)
                    THEN SetColumn(df, S_festival_flag, FillNA(festival, FALSE))
                    ELSE df
        weather  == Col(df, S_weather)
    IN  IF HasNA(weather) \/ \E i \in 1..df.n : weather[i] = Val(<<>>)
        THEN Only({
            LET fill_value == IF weather_mode # NA /\ weather_mode[1] # <<>>
                              THEN weather_mode[1] ELSE S_unknown
                Cell(i) == IF weather[i] = NA \/ weather[i] = Val(<<>>)
                           THEN Val(fill_value) ELSE weather[i]
            IN  SetColumn(flagged, S_weather, MakeColumn(df.n, Cell)) :
            weather_mode \in {Mode(weather, StrLess)} })
        ELSE flagged

\* handle_missing_values(df)
HandleMissingValues(df, leavesIntegers) ==
    Only({ Only({ IF out.raised
                  THEN [raised |-> TRUE, df |-> NoFrame, arg |-> ArgumentAfter(df, timed)]
                  ELSE Only({ [raised |-> FALSE, df |-> processed_df,
                               arg |-> ArgumentAfter(df, processed_df)] :
                              processed_df \in {FillFestivalAndWeather(out.df)} }) :
                  out \in {FillVisitors(timed, leavesIntegers)} }) :
           timed \in { FillHours(dated) : dated \in {FillDates(df)} } })

-----------------------------------------------------------------------------
(* DataProcessor: the stages as the pipeline and the tests call them:      *)
(* load_csv, validate_data (which a test skips), preprocess_data,          *)
(* handle_missing_values (possibly again on its own result) and            *)
(* detect_outliers.                                                        *)

\* the table the caller holds after the last call
CallerTable == IF lastOp = "validate_data" THEN lastArg.after ELSE returned

\* validate_data(df)
ValidateDataCall ==
    /\ lastOp = "load_csv"
    /\ \E errors \in {ValidateData(returned)} :
          /\ lastOp' = "validate_data"
          /\ lastArg' = [before |-> returned, after |-> ArgumentAfter(returned, returned),
                         errors |-> errors]
          /\ lastResult' = IF errors = <<>> THEN "ok" ELSE "DataValidationError"
          /\ returned' = NoFrame
    /\ UNCHANGED <<model, regressors, trainCalled, trainReturned>>

\* preprocess_data(df)
PreprocessDataCall ==
    /\ lastOp \in {"load_csv", "validate_data"}
    /\ \E out \in {PreprocessData(CallerTable)} :
          /\ lastOp' = "preprocess_data"
          /\ lastArg' = [before |-> CallerTable, after |-> out.arg]
          /\ lastResult' = IF out.raised THEN "DataValidationError" ELSE "ok"
          /\ returned' = out.df
    /\ UNCHANGED <<model, regressors, trainCalled, trainReturned>>

\* handle_missing_values(df)
HandleMissingValuesCall(leavesIntegers) ==
    /\ lastOp \in {"preprocess_data", "handle_missing_values"}
    /\ lastResult = "ok"
    /\ \E out \in {HandleMissingValues(returned, leavesIntegers)} :
          /\ lastOp' = "handle_missing_values"
          /\ lastArg' = [before |-> returned, after |-> out.arg]
          /\ lastResult' = IF out.raised THEN "InterpolationError" ELSE "ok"
          /\ returned' = out.df
    /\ UNCHANGED <<model, regressors, trainCalled, trainReturned>>

\* largest number of rows of a table handed to the DataProcessor
MaxDataRows == 11

\* the text of day `day` of January 2024 from the k-th directive of format on
RECURSIVE DateText(_, _, _)
DateText(format, k, day) ==
    IF k > Len(format) THEN <<>>
    ELSE (IF format[k] = "Y" THEN <<"2", "0", "2", "4">>
          ELSE IF format[k] = "m" THEN <<"0", "1">>
          ELSE IF format[k] = "d"
          THEN <<CharOrder[5 + (day \div 10)], CharOrder[5 + (day % 10)]>>
          ELSE <<format[k]>>) \o DateText(format, k + 1, day)

\* the columns of the input tables, each repeated to the length of the table.
\* date: the format the dates are written in and the day of each row, 0 for
\* a missing date; visitors: counts in eighths
DataPatterns ==
    [date |->
        { [format |-> DateFormats[1], days |-> <<1, 2, 3, 4, 5, 6, 7, 8, 9, 10>>],
          [format |-> DateFormats[1], days |-> <<1, 2, 3, 0, 5, 6, 7, 8, 9, 10>>],
          [format |-> DateFormats[1], days |-> <<1, 2, 0, 0, 5, 6, 7, 8, 9, 10>>],
          [format |-> DateFormats[1], days |-> <<0, 2, 3, 4, 5, 6, 7, 8, 9, 10>>],
          [format |-> DateFormats[3], days |-> <<5, 6, 7, 8, 9, 10, 11, 12, 13, 14>>],
          [format |-> DateFormats[7], days |-> <<1, 2, 3, 4, 32, 6, 7, 8, 9, 10>>],
          [format |-> AutomaticFormat, days |-> <<1, 2, 3, 4, 5, 6, 7, 8, 9, 10>>],
          [format |-> DateFormats[1],
           days |-> <<32, 33, 34, 35, 36, 37, 38, 39, 40, 41>>] },
     hour |->
        { <<Val(0), Val(1), Val(2), Val(3), Val(4), Val(5), Val(6), Val(7), Val(8),
            Val(9)>>,
          <<Val(0), Val(1), NA, Val(5), Val(5), Val(3), Val(3), Val(7), Val(8),
            Val(9)>>,
          <<Val(0), Val(1), Val(24), Val(3), Val(4), Val(-1), Val(6), Val(7), Val(8),
            Val(9)>> },
     visitors |->
        { <<Val(80), Val(88), Val(96), Val(104), Val(80), Val(88), Val(96), Val(104),
            Val(80), Val(88)>>,
          <<Val(80), Val(88), NA, Val(104), Val(80), Val(88), Val(96), Val(104),
            Val(80), Val(88)>>,
          <<Val(80), Val(-40), Val(96), Val(104), Val(80), Val(88), Val(96), Val(104),
            Val(80), Val(8000)>>,
          <<Val(80), Val(-40), NA, Val(104), Val(80), Val(96), Val(96), Val(104),
            Val(80), Val(88), NA>> },
     festival |->
        { <<Val(<<"1">>), Val(<<"0">>), Val(<<"y","e","s">>), Val(<<"N","o">>),
            Val(<<"T","r","u","e">>)>>,
          <<Val(<<"1">>), NA, Val(<<" ","y","e","s">>)>>,
          <<Val(<<"1">>), Val(<<"m","a","y","b","e">>), Val(<<"0">>)>> },
     weather |->
        { <<Val(S_sunny), Val(S_rainy), Val(S_rainy), Val(S_Sunny \o <<" ">>)>>,
          <<Val(S_sunny), Val(<<" ">>), Val(S_rainy), Val(<<" ", " ">>), Val(<<>>)>>,
          <<Val(S_sunny), NA, Val(S_rainy)>> }]

\* the table of n rows whose columns repeat the patterns of t
DataTable(t) ==
    LET Date(i)     == IF Cyclic(t.date.days, i) = 0 THEN NA
                       ELSE Val(DateText(t.date.format, 1, Cyclic(t.date.days, i)))
        Hour(i)     == Cyclic(t.hour, i)
        Visitors(i) == Cyclic(t.visitors, i)
        Festival(i) == Cyclic(t.festival, i)
        Weather(i)  == Cyclic(t.weather, i)
    IN  [n    |-> t.n,
         cols |-> << [name |-> S_date,          data |-> MakeColumn(t.n, Date)],
                     [name |-> S_hour,          data |-> MakeColumn(t.n, Hour)],
                     [name |-> S_visitors,      data |-> MakeColumn(t.n, Visitors)],
                     [name |-> S_festival_flag, data |-> MakeColumn(t.n, Festival)],
                     [name |-> S_weather,       data |-> MakeColumn(t.n, Weather)] >>]

\* tables with every date pattern and valid festival_flag and weather
\* columns, and 10-row tables with every combination of the other columns
DataTables ==
    { DataTable(t) :
        t \in [n : 10..MaxDataRows, date : DataPatterns.date,
               hour : DataPatterns.hour, visitors : DataPatterns.visitors,
               festival : {f \in DataPatterns.festival : Len(f) = 5},
               weather : {w \in DataPatterns.weather : Len(w) = 4}]
              \cup [n : {10},
                    date : {d \in DataPatterns.date : d.format = AutomaticFormat},
                    hour : DataPatterns.hour, visitors : DataPatterns.visitors,
                    festival : DataPatterns.festival,
                    weather : DataPatterns.weather] }

NextData ==
    \/ ValidateDataCall
    \/ PreprocessDataCall
    \/ \E leavesIntegers \in BOOLEAN : HandleMissingValuesCall(leavesIntegers)
    \/ \E upcast \in BOOLEAN :
          /\ lastOp = "handle_missing_values"
          /\ lastResult = "ok"
          /\ DetectOutliersCall(returned, TRUE, upcast)

SpecData == InitLoaded(DataTables) /\ [][NextData]_vars

-----------------------------------------------------------------------------
(* Properties: life cycle of the manager *)

ProbingOps == {"generate_future_dataframe", "make_predictions"}

\* C1: the manager reports is_trained, and generate_future_dataframe and
\* make_predictions get past their not-trained check, only if some earlier
\* train_model call returned successfully
C1_TrainedOnlyAfterSuccessfulTraining ==
    /\ IsTrained(model) => trainReturned
    /\ (lastOp \in ProbingOps /\ lastResult # "NotTrained") => trainReturned

\* C2: while train_model has never been called, generate_future_dataframe and
\* make_predictions fail with the not-trained error and change neither the
\* model nor the regressors
C2_UntrainedCallsFail ==
    [][(~trainCalled' /\ lastOp' \in ProbingOps)
          => (lastResult' = "NotTrained" /\ model' = model
                /\ regressors' = regressors)]_vars

C2_Witness ==
    /\ ~trainCalled
    /\ lastOp = "generate_future_dataframe"
    /\ lastArg.periods > 0
    /\ lastArg.future_regressors.supplied
    /\ lastResult = "NotTrained"
    /\ regressors # <<>>

\* C3: train_model on fewer than 30 rows fails with the insufficient-data
\* error and leaves model and regressors unchanged; exactly 30 rows are not
\* rejected by that check
C3_MinimumRows ==
    [][lastOp' = "train_model"
          => /\ lastArg'.table.n < 30
                  => (lastResult' = "InsufficientData" /\ model' = model
                        /\ regressors' = regressors)
             /\ lastArg'.table.n = 30 => lastResult' # "InsufficientData"]_vars

C3_Witness ==
    /\ lastOp = "train_model"
    /\ lastArg.table.n = 29
    /\ lastResult = "InsufficientData"
    /\ IsTrained(model)
    /\ regressors # <<>>

\* the regressor names train_model derives from a table alone
DerivedNames(t) ==
    {S_festival_flag}
    \cup {WeatherColumnName(t.weather[k][1]) :
             k \in {j \in 1..Len(t.weather) : NotNA(t.weather[j])}}

\* C5: on a manager that was trained before, a train_model call on a valid
\* table succeeds again, and the regressors are then those derived from the
\* table of this call only (no regressor having been registered by hand)
C5_RetrainingReplacesState ==
    [][(/\ trainReturned
        /\ lastOp' = "train_model"
        /\ lastArg'.table.n >= 30
        /\ lastArg'.table.festival = F_flags
        /\ lastArg'.fitOk
        /\ ~HasRegressor(regressors', S_temperature))
          => /\ lastResult' = "ok"
             /\ RegressorNames(regressors') = DerivedNames(lastArg'.table)]_vars

-----------------------------------------------------------------------------
(* Properties: future frame *)

GeneratedFrame == lastOp = "generate_future_dataframe" /\ lastResult = "ok"

\* C6: the frame generate_future_dataframe returns has a column for every
\* registered regressor, without a missing row
C6_FutureFrameHasAllRegressors ==
    GeneratedFrame =>
        \A k \in 1..Len(regressors) :
            /\ HasColumn(returned, regressors[k].name)
            /\ ~HasNA(Col(returned, regressors[k].name))

\* C7 as stated: without future_regressors every registered regressor column
\* is constant, 1 for weather_sunny and 0 for every other column, and the
\* frame has no other column than ds
C7_DefaultsAsStated ==
    (GeneratedFrame /\ ~lastArg.future_regressors.supplied) =>
        /\ Columns(returned) = {S_ds} \cup RegressorNames(regressors)
        /\ \A k \in 1..Len(regressors) :
              Col(returned, regressors[k].name)
                 = ConstantColumn(returned.n,
                                  IF regressors[k].name = WeatherColumnName(S_sunny)
                                  THEN 1 ELSE 0)

\* the default of a regressor column by its lower-cased name
NamedAfterSunny(name) ==
    /\ Contains(Lower(name), S_weather)
    /\ Contains(Lower(name), S_sunny)
    /\ ~Contains(Lower(name), S_festival)

\* C7 amended: without future_regressors every registered regressor column
\* is constant, 1 when its lower-cased name contains "weather" and "sunny"
\* but not "festival" and 0 otherwise, and the frame has no other column
\* than ds
C7_Defaults ==
    (GeneratedFrame /\ ~lastArg.future_regressors.supplied) =>
        /\ Columns(returned) = {S_ds} \cup RegressorNames(regressors)
        /\ \A k \in 1..Len(regressors) :
              Col(returned, regressors[k].name)
                 = ConstantColumn(returned.n,
                                  IF NamedAfterSunny(regressors[k].name) THEN 1 ELSE 0)

C7_Witness ==
    /\ GeneratedFrame
    /\ ~lastArg.future_regressors.supplied
    /\ lastArg.periods > 0
    /\ HasRegressor(regressors, S_festival_flag)
    /\ HasRegressor(regressors, WeatherColumnName(S_sunny))
    /\ HasRegressor(regressors, WeatherColumnName(S_partly_sunny))
    /\ HasRegressor(regressors, WeatherColumnName(S_rainy))
    /\ HasRegressor(regressors, S_temperature)

-----------------------------------------------------------------------------
(* Properties: regressor bookkeeping *)

NoDuplicateNames(regs) ==
    \A i, j \in 1..Len(regs) : regs[i].name = regs[j].name => i = j

\* C4: no two registered regressors have the same name; no call changes an
\* entry that is already registered; add_regressor with a registered name
\* changes nothing and raises no error
C4_NoDuplicateRegressors ==
    [][/\ NoDuplicateNames(regressors')
       /\ Len(regressors') >= Len(regressors)
       /\ \A i \in 1..Len(regressors) : regressors'[i] = regressors[i]
       /\ (lastOp' = "add_regressor" /\ HasRegressor(regressors, lastArg'.name))
             => (regressors' = regressors /\ lastResult' = "ok")]_vars

C4_Witness ==
    /\ lastOp = "add_regressor"
    /\ Len(regressors) >= 3
    /\ \E i \in 1..Len(regressors) :
          /\ regressors[i].name = lastArg.name
          /\ regressors[i].prior_scale # lastArg.prior_scale
          /\ regressors[i].standardize # lastArg.standardize

\* the distinct non-missing weather categories of a table
Categories(t) == {t.weather[k][1] : k \in {j \in 1..Len(t.weather) : NotNA(t.weather[j])}}

\* the columns encode_weather_data has added to the table
AddedColumns(t) == {k \in 1..Len(returned.cols) : ~HasColumn(TableOf(t), returned.cols[k].name)}

\* C8: encode_weather_data adds for each weather category c one column that
\* is 1 exactly on the rows whose weather is c and 0 elsewhere, registered as
\* a regressor; a row with a weather has exactly one added column equal to 1
C8_OneHotEncoding ==
    lastOp = "encode_weather_data" =>
        LET t == lastArg.table
            weather == Col(TableOf(t), S_weather)
        IN  /\ \A c \in Categories(t) :
                  \E k \in AddedColumns(t) :
                     /\ HasRegressor(regressors, returned.cols[k].name)
                     /\ \A i \in 1..returned.n :
                           returned.cols[k].data[i]
                              = Val(IF weather[i] = Val(c) THEN 1 ELSE 0)
            /\ \A i \in 1..returned.n :
                  NotNA(weather[i]) =>
                     Cardinality({k \in AddedColumns(t) :
                                     returned.cols[k].data[i] = Val(1)}) = 1

-----------------------------------------------------------------------------
(* Properties: forecast values *)

Predicted == lastOp = "make_predictions" /\ lastResult = "ok"

Exported == lastOp = "format_predictions_json" /\ lastResult = "ok"

\* C9: every row of the frame make_predictions returns whose raw output has
\* yhat_lower <= yhat <= yhat_upper has
\* 0 <= lower_bound <= predicted_visitors <= upper_bound
C9_ForecastOrder ==
    Predicted =>
        \A i \in 1..returned.n :
            (/\ Col(returned, S_yhat_lower)[i][1] <= Col(returned, S_yhat)[i][1]
             /\ Col(returned, S_yhat)[i][1] <= Col(returned, S_yhat_upper)[i][1])
                => /\ 0 <= Col(returned, S_lower_bound)[i][1]
                   /\ Col(returned, S_lower_bound)[i][1]
                         <= Col(returned, S_predicted_visitors)[i][1]
                   /\ Col(returned, S_predicted_visitors)[i][1]
                         <= Col(returned, S_upper_bound)[i][1]

C9_Witness ==
    /\ Predicted
    /\ \E i \in 1..returned.n :
          /\ Col(returned, S_yhat_lower)[i][1] < Col(returned, S_yhat)[i][1]
          /\ Col(returned, S_yhat)[i][1] < 0
          /\ Col(returned, S_yhat_upper)[i][1] > 1000
          /\ Col(returned, S_lower_bound)[i][1] = 0
          /\ Col(returned, S_predicted_visitors)[i][1] = 0
          /\ Col(returned, S_upper_bound)[i][1] > 0

\* C10: the yhat column of the frame make_predictions returns is >= 0, and
\* so are predicted_visitors, lower_bound and upper_bound of every exported
\* record
C10_NonNegativeForecast ==
    /\ Predicted => \A i \in 1..returned.n : Col(returned, S_yhat)[i][1] >= 0
    /\ Exported =>
          \A i \in 1..returned.n :
              /\ returned.predictions[i].predicted_visitors >= 0
              /\ returned.predictions[i].lower_bound >= 0
              /\ returned.predictions[i].upper_bound >= 0

\* C11: make_predictions on the frame generate_future_dataframe(periods) has
\* just returned gives exactly `periods` rows, whose timestamps follow the
\* last training timestamp hour by hour
C11_ExactlyPeriodsForecasts ==
    [][(GeneratedFrame /\ lastOp' = "make_predictions" /\ lastResult' = "ok")
          => LET ds   == Col(returned', S_ds)
                 last == model.history[Len(model.history)]
             IN  /\ returned'.n = lastArg.periods
                 /\ \A i \in 1..returned'.n : ds[i][1] = last + i]_vars

-----------------------------------------------------------------------------
(* Properties: outlier handling *)

OutliersHandled == lastOp = "detect_outliers" /\ lastResult = "ok"

\* quartiles of the visitors column of the table passed to detect_outliers
InputVisitors == Col(lastArg.before, S_visitors)
InputQ1  == Quantile(SortedValues(InputVisitors, lastArg.before.n), 1)
InputQ3  == Quantile(SortedValues(InputVisitors, lastArg.before.n), 3)
InputIQR == InputQ3 - InputQ1

\* C12: when no visitors value of the table is negative, every visitors
\* value v of the result of detect_outliers has 0 <= v <= Q3 + 3 * IQR
C12_CappedRange ==
    (OutliersHandled /\ \A i \in 1..lastArg.before.n : InputVisitors[i][1] >= 0)
        => \A i \in 1..returned.n :
              /\ 0 <= Col(returned, S_visitors)[i][1]
              /\ Col(returned, S_visitors)[i][1] <= InputQ3 + 3 * InputIQR

C12_Witness ==
    /\ OutliersHandled
    /\ \A i \in 1..lastArg.before.n : InputVisitors[i][1] >= 0
    /\ InputIQR > 0
    /\ \E i \in 1..returned.n :
          /\ InputVisitors[i][1] > InputQ3 + 3 * InputIQR
          /\ Col(returned, S_visitors)[i][1] # InputVisitors[i][1]

\* C13: detect_outliers leaves every value inside [Q1 - 3*IQR, Q3 + 3*IQR]
\* unchanged, turns every value above into Q3 + 1.5*IQR and every value
\* below into max(0, Q1 - 1.5*IQR), and changes neither the number of rows
\* nor another column
C13_TwoTiers ==
    OutliersHandled =>
        /\ returned.n = lastArg.before.n
        /\ Col(returned, S_hour) = Col(lastArg.before, S_hour)
        /\ \A i \in 1..returned.n :
              LET v   == InputVisitors[i][1]
                  out == Col(returned, S_visitors)[i][1]
                  low == InputQ1 - (3 * InputIQR) \div 2
              IN  /\ (InputQ1 - 3 * InputIQR <= v /\ v <= InputQ3 + 3 * InputIQR)
                        => out = v
                  /\ v > InputQ3 + 3 * InputIQR
                        => out = InputQ3 + (3 * InputIQR) \div 2
                  /\ v < InputQ1 - 3 * InputIQR
                        => out = (IF low < 0 THEN 0 ELSE low)

-----------------------------------------------------------------------------
(* Properties: validation *)

\* the checks of validate_data that the table df violates
ViolatedChecks(df) ==
    LET hour     == Col(df, S_hour)
        visitors == Col(df, S_visitors)
        festival == Col(df, S_festival_flag)
        weather  == Col(df, S_weather)
        rows     == 1..df.n
    IN  {c \in {"invalid hour", "hour out of range", "invalid visitors",
                "negative visitors", "invalid festival_flag", "empty weather"} :
           \/ c = "invalid hour" /\ \E i \in rows : hour[i] = NA
           \/ c = "hour out of range"
                 /\ \E i \in rows : hour[i] # NA /\ hour[i][1] \notin 0..23
           \/ c = "invalid visitors" /\ \E i \in rows : visitors[i] = NA
           \/ c = "negative visitors"
                 /\ \E i \in rows : visitors[i] # NA /\ visitors[i][1] < 0
           \/ c = "invalid festival_flag"
                 /\ \E i \in rows : /\ festival[i] # NA
                                    /\ festival[i][1] \notin TrueTokens \cup FalseTokens
           \/ c = "empty weather"
                 /\ \E i \in rows : /\ weather[i] # NA
                                    /\ \A k \in 1..Len(weather[i][1]) :
                                           weather[i][1][k] = " "}

\* C14: validate_data raises one DataValidationError that has exactly one
\* entry for every check the table violates, whatever the other checks
\* found; it returns True exactly when no check is violated, and the table
\* is as it was.
C14_AllViolationsReported ==
    lastOp = "validate_data" =>
        LET violated == ViolatedChecks(lastArg.before)
            errors   == lastArg.errors
        IN  /\ {errors[k] : k \in 1..Len(errors)} = violated
            /\ Len(errors) = Cardinality(violated)
            /\ lastResult = (IF violated = {} THEN "ok" ELSE "DataValidationError")
            /\ lastArg.after = lastArg.before
            /\ returned = NoFrame

\* validate_data has raised for a table that violates a check of each of
\* the four columns
C14_Witness ==
    /\ lastOp = "validate_data"
    /\ lastResult = "DataValidationError"
    /\ {"hour out of range", "negative visitors", "invalid festival_flag",
        "empty weather"} \subseteq {lastArg.errors[k] : k \in 1..Len(lastArg.errors)}

\* C15: validate_data accepts a table whose visitors column has missing
\* entries when the present counts are non-negative and the other columns
\* are valid.
C15_MissingVisitorsAccepted ==
    (/\ lastOp = "validate_data"
     /\ HasNA(Col(lastArg.before, S_visitors))
     /\ ViolatedChecks(lastArg.before) \subseteq {"invalid visitors"})
        => lastResult = "ok"

-----------------------------------------------------------------------------
(* Properties: dates *)

\* the formats of date_formats, in their order, under which a value of the
\* column parses
ParsingFormats(date) ==
    {k \in 1..Len(DateFormats) :
        \E i \in 1..Len(date) : ToDatetime(date[i], DateFormats[k]) # NA}

\* C16: preprocess_data leaves the dates as the first format of date_formats
\* that parses at least one value reads them, null where that format does not
\* parse; automatic parsing reads them only if no format of the list parses
\* a value; the call raises only if automatic parsing parses no value
\* either.
C16_FirstParsingFormat ==
    lastOp = "preprocess_data" =>
        LET date  == Col(lastArg.before, S_date)
            first == CHOOSE k \in ParsingFormats(date) :
                         \A j \in ParsingFormats(date) : k <= j
            adopted == IF ParsingFormats(date) # {} THEN DateFormats[first]
                       ELSE AutomaticFormat
            expected == [i \in 1..Len(date) |-> ToDatetime(date[i], adopted)]
        IN  IF \E i \in 1..Len(date) : expected[i] # NA
            THEN /\ lastResult = "ok"
                 /\ Col(returned, S_date) = expected
            ELSE lastResult = "DataValidationError"

\* preprocess_data has returned dates read under a format that is not the
\* first of the list and that left a value null which is not missing in the
\* input
C16_Witness ==
    /\ lastOp = "preprocess_data"
    /\ lastResult = "ok"
    /\ 1 \notin ParsingFormats(Col(lastArg.before, S_date))
    /\ ParsingFormats(Col(lastArg.before, S_date)) # {}
    /\ \E i \in 1..returned.n : /\ Col(lastArg.before, S_date)[i] # NA
                                /\ Col(returned, S_date)[i] = NA

-----------------------------------------------------------------------------
(* Properties: missing values *)

\* handle_missing_values has returned
MissingValuesHandled == lastOp = "handle_missing_values" /\ lastResult = "ok"

\* the number of cells of column equal to cell
CountOf(column, cell) == Cardinality({i \in 1..Len(column) : column[i] = cell})

\* C17: the rows without a date are dropped exactly when they are more than
\* 10% of the rows; otherwise every row is kept and a missing date is the
\* date of the nearest row before it that has one (the rows may have been
\* sorted when a visitor count was missing).
C17_DropAboveTenPercent ==
    MissingValuesHandled =>
        LET before  == lastArg.before
            date    == Col(before, S_date)
            missing == CountOf(date, NA)
            Dated(i) == {j \in 1..i : date[j] # NA}
            Taken(i) == IF Dated(i) = {} THEN NA
                        ELSE date[CHOOSE j \in Dated(i) : \A h \in Dated(i) : h <= j]
            filled  == [i \in 1..before.n |-> Taken(i)]
            result  == Col(returned, S_date)
        IN  IF 10 * missing > before.n
            THEN /\ returned.n = before.n - missing
                 /\ \A i \in 1..before.n :
                       date[i] # NA => CountOf(result, date[i]) = CountOf(date, date[i])
                 /\ CountOf(result, NA) = 0
            ELSE /\ returned.n = before.n
                 /\ \A i \in 1..before.n :
                       CountOf(result, filled[i]) = CountOf(filled, filled[i])
                 /\ HasNA(Col(before, S_visitors)) \/ result = filled

\* handle_missing_values has returned a table of which exactly 10% of the
\* rows had no date: every row is kept and the date is filled
C17_Witness ==
    /\ MissingValuesHandled
    /\ 10 * CountOf(Col(lastArg.before, S_date), NA) = lastArg.before.n
    /\ returned.n = lastArg.before.n
    /\ ~HasNA(Col(returned, S_date))

\* no cell of the five columns is missing, an empty weather text included
NoMissingValue(df) ==
    /\ \A name \in {S_date, S_hour, S_visitors, S_festival_flag, S_weather} :
          ~HasNA(Col(df, name))
    /\ \A i \in 1..df.n : Col(df, S_weather)[i] # Val(<<>>)

\* C18: handle_missing_values returns a table without missing values as it
\* is, and applied to a table it has returned it returns that table again.
C18_Idempotent ==
    [][(lastOp' = "handle_missing_values"
          /\ (NoMissingValue(returned) \/ MissingValuesHandled))
        => (lastResult' = "ok" /\ returned' = returned)]_vars

-----------------------------------------------------------------------------
(* Properties: the stages and their caller *)

\* C19: preprocess_data turns every negative visitor count into 0 and keeps
\* the others, and a table whose only irregularity is a negative count is
\* not rejected by the stage before it.
C19_NegativeVisitorsCleaned ==
    /\ (lastOp = "preprocess_data" /\ lastResult = "ok") =>
          \A i \in 1..returned.n :
             LET input  == Col(lastArg.before, S_visitors)[i]
                 output == Col(returned, S_visitors)[i]
             IN  IF input = NA THEN output = NA
                 ELSE output = Val(IF input[1] < 0 THEN 0 ELSE input[1])
    /\ (/\ lastOp = "validate_data"
        /\ ViolatedChecks(lastArg.before) = {"negative visitors"})
          => lastResult = "ok"

\* C20: a stage leaves the table it was passed as it was, whether it returns
\* or raises, and a stage that raises returns no table.
C20_ArgumentUnchanged ==
    lastOp \in {"validate_data", "preprocess_data", "handle_missing_values",
                "detect_outliers"} =>
        /\ lastArg.after.n = lastArg.before.n
        /\ \A k \in 1..Len(lastArg.before.cols) :
              lastArg.after.cols[k] = lastArg.before.cols[k]
        /\ lastResult # "ok" => returned = NoFrame

\* detect_outliers has raised on assigning the upper cap after it had
\* assigned the lower cap or found none to assign
C20_Witness ==
    /\ lastOp = "detect_outliers"
    /\ lastResult = "TypeError"
    /\ lastArg.after = lastArg.before
    /\ returned = NoFrame

-----------------------------------------------------------------------------
(* main.py: main and run_prediction_pipeline.                              *)
(* lastArg holds the command line and the run's bookkeeping, lastOp the    *)
(* step started last, lastResult its outcome, returned the value           *)
(* run_prediction_pipeline returned and the exit code of main.             *)

\* largest --prediction-days on the command line
MaxPredictionDays == 2

\* the calls of run_prediction_pipeline in program order
PipelineSteps == <<"load_csv", "validate_data", "preprocess_data",
                   "handle_missing_values", "detect_outliers", "train_model",
                   "make_predictions", "create_prediction_chart",
                   "export_predictions">>

\* what a call can end with: "ok", or the kind of exception it raised
\* ("False": export_predictions returned False)
StepOutcomes(step) ==
    CASE step = "load_csv" ->
            {"ok", "FileNotFoundError", "PermissionError", "DataValidationError",
             "Exception"}
      [] step \in {"validate_data", "preprocess_data"} ->
            {"ok", "DataValidationError", "Exception"}
      [] step \in {"handle_missing_values", "detect_outliers"} ->
            {"ok", "Exception"}
      [] step = "train_model" -> {"ok", "ValueError", "Exception"}
      [] step = "make_predictions" -> {"ok", "Exception"}
      [] step = "create_prediction_chart" -> {"ok", "PermissionError", "Exception"}
      [] step = "export_predictions" -> {"ok", "False", "ExportError", "Exception"}

NotRun == [value |-> "none", exit_code |-> -1]

\* return value of run_prediction_pipeline and main's sys.exit on it
Return(value) == [value |-> IF value THEN "True" ELSE "False",
                  exit_code |-> IF value THEN 0 ELSE 1]

\* the step has been started and has ended with the outcome
Started(run, step, outcome) ==
    [run EXCEPT !.started = Append(@, step), !.outcomes = Append(@, outcome)]

Mark(run, key) == [run EXCEPT !.partial_results = @ \cup {key}]

\* mutant: overall success also asks for the chart and the export
CoreSuccess_AllOutputs(run) ==
    /\ {"data_processed", "model_trained", "predictions_generated"}
           \subseteq run.partial_results
    /\ run.chart_created
    /\ run.export_success

\* core_success
CoreSuccess(run) ==
    {"data_processed", "model_trained", "predictions_generated"}
        \subseteq run.partial_results

\* mutant: a failed training is logged and the run goes on
TrainFailureReturns_Never(outcome) == FALSE

\* the except clauses of step 2 return False
TrainFailureReturns(outcome) == outcome # "ok"

InitPipeline ==
    /\ model = NoModel
    /\ regressors = <<>>
    /\ lastOp = "parse_arguments"
    /\ lastResult = "ok"
    /\ lastArg \in [prediction_days : 0..MaxPredictionDays,
                    input_exists : BOOLEAN,
                    chart_output : BOOLEAN,
                    json_output : BOOLEAN,
                    started : {<<>>},
                    outcomes : {<<>>},
                    partial_results : {{}},
                    chart_created : {FALSE},
                    export_success : {FALSE},
                    files : {{}}]
    /\ returned = NotRun
    /\ trainCalled = FALSE
    /\ trainReturned = FALSE

\* main: checks the command line, then calls run_prediction_pipeline, whose
\* first call is load_csv
MainCall(outcome) ==
    /\ lastOp = "parse_arguments"
    /\ IF lastArg.prediction_days <= 0 \/ ~lastArg.input_exists
       THEN /\ lastOp' = "main"
            /\ lastResult' = "SystemExit"
            /\ lastArg' = lastArg
            /\ returned' = [value |-> "none", exit_code |-> 1]
       ELSE /\ lastOp' = "load_csv"
            /\ lastResult' = outcome
            /\ lastArg' = IF outcome = "ok"
                          THEN Mark(Started(lastArg, "load_csv", outcome), "data_loaded")
                          ELSE Started(lastArg, "load_csv", outcome)
            /\ returned' = IF outcome = "ok" THEN NotRun ELSE Return(FALSE)
    /\ UNCHANGED <<model, regressors, trainCalled, trainReturned>>

\* step 1 after load_csv: the next call of the try block
DataStep(step, outcome) ==
    /\ returned = NotRun
    /\ lastOp # "parse_arguments"
    /\ Len(lastArg.started) < 5
    /\ step = PipelineSteps[Len(lastArg.started) + 1]
    /\ lastOp' = step
    /\ lastResult' = outcome
    /\ lastArg' = IF outcome # "ok" THEN Started(lastArg, step, outcome)
                  ELSE IF step = "validate_data"
                  THEN Mark(Started(lastArg, step, outcome), "data_validated")
                  ELSE IF step = "detect_outliers"
                  THEN Mark(Started(lastArg, step, outcome), "data_processed")
                  ELSE Started(lastArg, step, outcome)
    /\ returned' = IF outcome = "ok" THEN NotRun ELSE Return(FALSE)
    /\ UNCHANGED <<model, regressors, trainCalled, trainReturned>>

\* step 2
TrainStep(outcome) ==
    /\ returned = NotRun
    /\ lastOp = "detect_outliers"
    /\ lastOp' = "train_model"
    /\ lastResult' = outcome
    /\ lastArg' = IF outcome = "ok"
                  THEN Mark(Started(lastArg, "train_model", outcome), "model_trained")
                  ELSE Started(lastArg, "train_model", outcome)
    /\ returned' = IF TrainFailureReturns(outcome) THEN Return(FALSE) ELSE NotRun
    /\ UNCHANGED <<model, regressors, trainCalled, trainReturned>>

\* step 3: generate_future_dataframe and make_predictions
PredictStep(outcome) ==
    /\ returned = NotRun
    /\ lastOp = "train_model"
    /\ lastOp' = "make_predictions"
    /\ lastResult' = outcome
    /\ lastArg' = IF outcome = "ok"
                  THEN Mark(Started(lastArg, "make_predictions", outcome),
                            "predictions_generated")
                  ELSE Started(lastArg, "make_predictions", outcome)
    /\ returned' = IF outcome = "ok" THEN NotRun ELSE Return(FALSE)
    /\ UNCHANGED <<model, regressors, trainCalled, trainReturned>>

\* step 4: a failure is logged only; a failed step may have saved the chart
\* before it failed
ChartStep(outcome, saved) ==
    /\ returned = NotRun
    /\ lastOp = "make_predictions"
    /\ outcome = "ok" => saved
    /\ lastOp' = "create_prediction_chart"
    /\ lastResult' = outcome
    /\ \E path \in {IF lastArg.chart_output THEN "chart_output"
                    ELSE "prediction_chart.png"} :
       \E run \in {Started(lastArg, "create_prediction_chart", outcome)} :
          lastArg' = [IF outcome = "ok" THEN Mark(run, "chart_created") ELSE run
                        EXCEPT !.chart_created = (outcome = "ok"),
                               !.files = IF saved THEN @ \cup {path} ELSE @]
    /\ returned' = NotRun
    /\ UNCHANGED <<model, regressors, trainCalled, trainReturned>>

\* step 5 and the final status report
ExportStep(outcome, saved) ==
    /\ returned = NotRun
    /\ lastOp = "create_prediction_chart"
    /\ outcome = "ok" => saved
    /\ lastOp' = "export_predictions"
    /\ lastResult' = outcome
    /\ \E path \in {IF lastArg.json_output THEN "json_output"
                    ELSE "predictions.json"} :
       \E run \in {Started(lastArg, "export_predictions", outcome)} :
       \E final \in {[IF outcome = "ok" THEN Mark(run, "predictions_exported") ELSE run
                        EXCEPT !.export_success = (outcome = "ok"),
                               !.files = IF saved THEN @ \cup {path} ELSE @]} :
          /\ lastArg' = final
          /\ returned' = Return(CoreSuccess(final))
    /\ UNCHANGED <<model, regressors, trainCalled, trainReturned>>

NextPipeline ==
    \/ \E outcome \in StepOutcomes("load_csv") : MainCall(outcome)
    \/ \E k \in 2..5 : \E outcome \in StepOutcomes(PipelineSteps[k]) :
          DataStep(PipelineSteps[k], outcome)
    \/ \E outcome \in StepOutcomes("train_model") : TrainStep(outcome)
    \/ \E outcome \in StepOutcomes("make_predictions") : PredictStep(outcome)
    \/ \E outcome \in StepOutcomes("create_prediction_chart") :
          \E saved \in BOOLEAN : ChartStep(outcome, saved)
    \/ \E outcome \in StepOutcomes("export_predictions") :
          \E saved \in BOOLEAN : ExportStep(outcome, saved)

SpecPipeline == InitPipeline /\ [][NextPipeline]_vars

\* the calls that have ended without an exception
Succeeded(run) ==
    {run.started[k] : k \in {j \in 1..Len(run.started) : run.outcomes[j] = "ok"}}

CoreSteps == {PipelineSteps[k] : k \in 1..7}

RunOver == returned # NotRun

\* C21: run_prediction_pipeline returns True and main exits with code 0
\* exactly when every call of data processing, training and prediction ended
\* without an exception, whatever chart creation and export did.
C21_SuccessIffCoreSucceeded ==
    RunOver =>
        /\ (returned.value = "True") <=> (CoreSteps \subseteq Succeeded(lastArg))
        /\ (returned.exit_code = 0) <=> (CoreSteps \subseteq Succeeded(lastArg))

\* the run reports success although neither the chart nor the export worked
C21_Witness ==
    /\ returned = Return(TRUE)
    /\ ~lastArg.chart_created
    /\ ~lastArg.export_success
    /\ lastArg.outcomes[8] # "ok"
    /\ lastArg.outcomes[9] # "ok"

IsPrefix(s, t) == Len(s) <= Len(t) /\ \A k \in 1..Len(s) : s[k] = t[k]

\* C22: the calls are started in program order; once a call before chart
\* creation has failed the run is over with no further call started, and a
\* run that failed in load_csv or validate_data has written no file.
C22_FixedOrderStopAtFailure ==
    /\ IsPrefix(lastArg.started, PipelineSteps)
    /\ \A k \in 1..Len(lastArg.started) :
          (k <= 7 /\ lastArg.outcomes[k] # "ok") =>
              /\ Len(lastArg.started) = k
              /\ returned = Return(FALSE)
              /\ k <= 2 => lastArg.files = {}

\* validate_data has raised: the run is over after two calls, nothing written
C22_Witness ==
    /\ lastArg.started = <<"load_csv", "validate_data">>
    /\ lastArg.outcomes = <<"ok", "DataValidationError">>
    /\ returned = Return(FALSE)
    /\ lastArg.files = {}

-----------------------------------------------------------------------------
(* data_simulation.py: zone classification.                                *)
(* A Python value passed as a count is a record: its type and, for a       *)
(* number, its value in halves (so 400.5 is 801 halves); nan is the float  *)
(* that is not a number.  Colours are strings of characters; None is NA.   *)

IntCount(n)   == [type |-> "int",   halves |-> 2 * n, nan |-> FALSE]
FloatCount(h) == [type |-> "float", halves |-> h,     nan |-> FALSE]
NanCount      == [type |-> "float", halves |-> 0,     nan |-> TRUE]
StrCount      == [type |-> "str",   halves |-> 0,     nan |-> FALSE]
NoneCount     == [type |-> "NoneType", halves |-> 0,  nan |-> FALSE]

Green == <<"#","9","0","E","E","9","0">>
Gold  == <<"#","F","F","D","7","0","0">>
Red   == <<"#","F","F","6","B","6","B">>
Gray  == <<"#","C","C","C","C","C","C">>

\* not isinstance(crowd_count, (int, float)) or crowd_count < 0
\* (every comparison with nan is false)
InvalidCount(count) ==
    \/ count.type \notin {"int", "float"}
    \/ ~count.nan /\ count.halves < 0

\* int(count) raises for nan
IntRaises(count) == count.nan

\* int(count) of a count that is not negative: the fraction is dropped
IntOf(count) == count.halves \div 2

\* the branch get_zone_color and get_zone_status take: 0 invalid or
\* exception, 1 below 200, 2 up to 400, 3 above
DensityLevel(count) ==
    IF InvalidCount(count) \/ IntRaises(count) THEN 0
    ELSE IF IntOf(count) < 200 THEN 1
    ELSE IF IntOf(count) <= 400 THEN 2
    ELSE 3

GetZoneColor(count) == <<Gray, Green, Gold, Red>>[DensityLevel(count) + 1]

GetZoneStatus(count) == <<"Unknown", "Low", "Medium", "High">>[DensityLevel(count) + 1]

\* create_zone_data returned None
NoZone == [name |-> <<>>, current_count |-> -1, color |-> <<>>, status |-> "None"]

ZoneData(name, current_count, color, status) ==
    [name |-> name, current_count |-> current_count, color |-> color,
     status |-> status]

\* create_zone_data(name, count, color, status): name is NA when it is not a
\* string; color and status are NA when they are not given
CreateZoneData(name, count, color, status) ==
    IF name = NA \/ Strip(name[1]) = <<>> THEN NoZone
    ELSE IF ~InvalidCount(count) /\ IntRaises(count) THEN NoZone
    ELSE LET n == IF InvalidCount(count) THEN 0 ELSE IntOf(count)
             c == IF color = NA THEN GetZoneColor(IntCount(n)) ELSE color[1]
             s == IF status = NA THEN GetZoneStatus(IntCount(n)) ELSE status[1]
         IN  ZoneData(Strip(name[1]), n,
                      IF Len(c) > 0 /\ c[1] = "#" THEN c ELSE Gray, s)

\* counts around the thresholds, in halves
CountHalves == (-2..3) \cup (397..403) \cup (797..803) \cup {1200}

Counts == {IntCount(h \div 2) : h \in {x \in CountHalves : x % 2 = 0}}
          \cup {FloatCount(h) : h \in CountHalves}
          \cup {NanCount, StrCount, NoneCount}

ZoneNames == {Val(<<"G","a","t","e">>), Val(<<" ","H","a","l","l"," ">>),
              Val(<<" ">>), NA}

ExplicitColors == {NA, Val(Red), Val(<<"r","e","d">>)}

ExplicitStatuses == {NA, Val("Closed")}

InitZones ==
    /\ model = NoModel
    /\ regressors = <<>>
    /\ lastOp = "import"
    /\ lastResult = "ok"
    /\ lastArg = [count |-> IntCount(0), name |-> NA, color |-> NA, status |-> NA]
    /\ returned = NoZone
    /\ trainCalled = FALSE
    /\ trainReturned = FALSE

\* get_zone_color(count) and get_zone_status(count) on the same count
ClassifyCall(count) ==
    /\ lastOp' = "get_zone_color"
    /\ lastResult' = "ok"
    /\ lastArg' = [count |-> count, name |-> NA, color |-> NA, status |-> NA]
    /\ returned' = ZoneData(<<>>, -1, GetZoneColor(count), GetZoneStatus(count))
    /\ UNCHANGED <<model, regressors, trainCalled, trainReturned>>

CreateZoneDataCall(name, count, color, status) ==
    /\ lastOp' = "create_zone_data"
    /\ lastResult' = "ok"
    /\ lastArg' = [count |-> count, name |-> name, color |-> color, status |-> status]
    /\ returned' = CreateZoneData(name, count, color, status)
    /\ UNCHANGED <<model, regressors, trainCalled, trainReturned>>

NextZones ==
    \/ \E count \in Counts : ClassifyCall(count)
    \/ \E name \in ZoneNames, count \in Counts, color \in ExplicitColors,
          status \in ExplicitStatuses : CreateZoneDataCall(name, count, color, status)

SpecZones == InitZones /\ [][NextZones]_vars

\* the level the thresholds give a count that is a number and not negative
ThresholdStatus(halves) ==
    IF halves < 2 * 200 THEN "Low" ELSE IF halves <= 2 * 400 THEN "Medium" ELSE "High"

ThresholdColor(halves) ==
    IF halves < 2 * 200 THEN Green ELSE IF halves <= 2 * 400 THEN Gold ELSE Red

\* C25: a count below 200 is Low and green, a count from 200 to 400 is Medium
\* and gold, a count above 400 is High and red, a negative count and a value
\* that is not a number are Unknown and gray; and a zone created without an
\* explicit color and status carries the color and status of its own count.
C25_DensityThresholds ==
    /\ lastOp = "get_zone_color" =>
          IF InvalidCount(lastArg.count) \/ lastArg.count.nan
          THEN returned.status = "Unknown" /\ returned.color = Gray
          ELSE /\ returned.status = ThresholdStatus(lastArg.count.halves)
               /\ returned.color = ThresholdColor(lastArg.count.halves)
    /\ (/\ lastOp = "create_zone_data"
        /\ returned # NoZone
        /\ lastArg.color = NA
        /\ lastArg.status = NA) =>
          /\ returned.status = ThresholdStatus(2 * returned.current_count)
          /\ returned.color = ThresholdColor(2 * returned.current_count)

\* the integer counts, the negative ones and the values that are not numbers
\* are classified as the thresholds say, and so is every created zone
IntegerCountsClassified ==
    /\ (lastOp = "get_zone_color" /\ lastArg.count.type # "float") =>
          IF InvalidCount(lastArg.count)
          THEN returned.status = "Unknown" /\ returned.color = Gray
          ELSE /\ returned.status = ThresholdStatus(lastArg.count.halves)
               /\ returned.color = ThresholdColor(lastArg.count.halves)
    /\ (/\ lastOp = "create_zone_data"
        /\ returned # NoZone
        /\ lastArg.color = NA
        /\ lastArg.status = NA) =>
          /\ returned.status = ThresholdStatus(2 * returned.current_count)
          /\ returned.color = ThresholdColor(2 * returned.current_count)

-----------------------------------------------------------------------------
(* app.py: the dashboard's session and its refresh loop.                   *)
(* lastArg is st.session_state together with the clock (whole seconds) and *)
(* the history the properties speak of; lastOp is the part of main run     *)
(* last, lastResult its outcome ("rerun": st.rerun was called), returned   *)
(* the zone data generated last.                                           *)

\* the clock stops here
MaxTime == 11

Zones == {"Gate", "Hall", "Exit"}

ZoneText(z) == CASE z = "Gate" -> <<"G","a","t","e">>
                 [] z = "Hall" -> <<"H","a","l","l">>
                 [] z = "Exit" -> <<"E","x","i","t">>

\* zone_ranges
ZoneRanges == [Gate |-> <<50, 600>>, Hall |-> <<100, 800>>, Exit |-> <<30, 400>>]

\* get_fallback_crowd_data
FallbackCrowdData == [Gate |-> 100, Hall |-> 200, Exit |-> 50]

\* where an exception is raised inside data generation: in random.randint,
\* inside create_zone_data for one zone ("None": it returns None) or around
\* it ("raise"), in generate_all_zone_data outside the loop ("outer"), in its
\* except clause too ("handler"), and in create_emergency_zone_data as well
\* ("emergency")
NoFault == [at |-> "nowhere", zone |-> "Gate"]

Faults == {NoFault, [at |-> "randint", zone |-> "Gate"],
           [at |-> "outer", zone |-> "Gate"], [at |-> "handler", zone |-> "Gate"],
           [at |-> "emergency", zone |-> "Gate"]}
          \cup [at : {"None", "raise"}, zone : Zones]

\* generate_crowd_data: random.randint draws the lower or the upper end
GenerateCrowdData(pick, fault) ==
    IF fault.at = "randint" THEN FallbackCrowdData
    ELSE [z \in Zones |-> ZoneRanges[z][pick]]

FallbackZones(status) ==
    [z \in Zones |-> ZoneData(ZoneText(z), FallbackCrowdData[z], Gray, status)]

\* generate_all_zone_data
GenerateAllZoneData(pick, fault) ==
    IF fault.at = "handler" \/ fault.at = "emergency"
    THEN [raised |-> TRUE, zones |-> <<>>]
    ELSE IF fault.at = "outer"
    THEN [raised |-> FALSE, zones |-> FallbackZones("Emergency")]
    ELSE LET crowd_data == GenerateCrowdData(pick, fault)
             Zone(z) ==
                 IF fault.at = "raise" /\ fault.zone = z
                 THEN ZoneData(ZoneText(z), FallbackCrowdData[z], Gray, "Error")
                 ELSE LET zone_obj == IF fault.at = "None" /\ fault.zone = z
                                      THEN NoZone
                                      ELSE CreateZoneData(Val(ZoneText(z)),
                                                          IntCount(crowd_data[z]), NA, NA)
                      IN  IF zone_obj # NoZone THEN zone_obj
                          ELSE ZoneData(ZoneText(z), FallbackCrowdData[z], Gray,
                                        "Unknown")
         IN  [raised |-> FALSE, zones |-> [z \in Zones |-> Zone(z)]]

\* create_emergency_zone_data
CreateEmergencyZoneData(fault) ==
    IF fault.at = "emergency"
    THEN [Gate |-> ZoneData(ZoneText("Gate"), 100, Gray, "Critical"),
          Hall |-> ZoneData(ZoneText("Hall"), 200, Gray, "Critical"),
          Exit |-> ZoneData(ZoneText("Exit"), 50, Gray, "Critical")]
    ELSE FallbackZones("Emergency")

\* mutant: the exception of the primary method is passed on
SafeGenerateZoneData_NoFallback(pick, fault) == GenerateAllZoneData(pick, fault)

\* safe_generate_zone_data
SafeGenerateZoneData(pick, fault) ==
    LET primary == GenerateAllZoneData(pick, fault)
    IN  IF primary.raised \/ ~(Zones \subseteq DOMAIN primary.zones)
        THEN [raised |-> FALSE, zones |-> CreateEmergencyZoneData(fault)]
        ELSE primary

\* what the generator is made to do in one call
Scenes == {<<1, NoFault>>, <<2, NoFault>>} \cup {<<1, f>> : f \in Faults \ {NoFault}}

\* mutant: the interval is not looked at
RefreshDue_IgnoresInterval(session, current_time) == session.auto_refresh_enabled

\* the condition of handle_auto_refresh
RefreshDue(session, current_time) ==
    /\ session.auto_refresh_enabled
    /\ current_time - session.refresh_start_time >= session.refresh_interval

\* history: one more automatic refresh in a row in which generate_all_zone_data
\* raised ("Primary data generation failed"), or one in which it returned
Counted(session, failed) ==
    [session EXCEPT !.failed_in_a_row = IF ~failed THEN 0
                                        ELSE IF @ < 3 THEN @ + 1 ELSE @]

\* if 'refresh_error_count' in st.session_state: ... = 0
ErrorCountReset(session) ==
    [session EXCEPT !.refresh_error_count = IF @ = NA THEN NA ELSE Val(0)]

InitDashboard ==
    /\ model = NoModel
    /\ regressors = <<>>
    /\ lastOp = "initialize_session_state"
    /\ lastResult = "ok"
    /\ lastArg = [clock |-> 0, last_refresh |-> 0, refresh_interval |-> 5,
                  zones_data |-> <<>>, auto_refresh_enabled |-> TRUE,
                  refresh_start_time |-> 0, refresh_error_count |-> NA,
                  failed_in_a_row |-> 0, auto_refreshes |-> <<>>]
    /\ returned = <<>>
    /\ trainCalled = FALSE
    /\ trainReturned = FALSE

Tick ==
    /\ lastArg.clock < MaxTime
    /\ lastArg' = [lastArg EXCEPT !.clock = @ + 1]
    /\ UNCHANGED <<model, regressors, lastOp, lastResult, returned, trainCalled,
                   trainReturned>>

\* handle_auto_refresh at the start of a run of main; rerun_raises: st.rerun
\* raises an exception instead of restarting the run
HandleAutoRefresh(pick, fault, rerun_raises) ==
    /\ lastOp \in {"initialize_session_state", "render_refresh_status_indicator"}
       \/ lastResult = "rerun"
    /\ lastOp' = "handle_auto_refresh"
    /\ UNCHANGED <<model, regressors, trainCalled, trainReturned>>
    /\ IF ~RefreshDue(lastArg, lastArg.clock)
       THEN /\ pick = 1 /\ fault = NoFault /\ ~rerun_raises
            /\ lastResult' = "ok"
            /\ UNCHANGED <<lastArg, returned>>
       ELSE \E current_time \in {lastArg.clock} :
            \E timed \in {Counted([lastArg EXCEPT
                                     !.refresh_start_time = current_time,
                                     !.last_refresh = current_time,
                                     !.auto_refreshes =
                                        IF @ = <<>> THEN <<current_time>>
                                        ELSE <<@[Len(@)], current_time>>],
                                  GenerateAllZoneData(pick, fault).raised)} :
            \E new_zones_data \in {SafeGenerateZoneData(pick, fault)} :
               IF new_zones_data.raised
               THEN \E count \in {IF timed.refresh_error_count = NA THEN 1
                                  ELSE timed.refresh_error_count[1] + 1} :
                    /\ ~rerun_raises
                    /\ lastResult' = "ok"
                    /\ returned' = returned
                    /\ lastArg' =
                         [timed EXCEPT
                            !.refresh_error_count = Val(count),
                            !.auto_refresh_enabled = IF count >= 3 THEN FALSE ELSE @,
                            !.zones_data = IF count < 3 /\ @ = <<>>
                                           THEN CreateEmergencyZoneData(fault) ELSE @]
               ELSE /\ returned' = new_zones_data.zones
                    /\ lastResult' = IF rerun_raises THEN "ok" ELSE "rerun"
                    /\ lastArg' =
                         [ErrorCountReset(timed) EXCEPT
                            !.zones_data = new_zones_data.zones,
                            !.auto_refresh_enabled = IF rerun_raises THEN FALSE ELSE @]

\* main after handle_auto_refresh: if not st.session_state.zones_data
EnsureZoneData(pick, fault) ==
    /\ lastOp = "handle_auto_refresh"
    /\ lastResult = "ok"
    /\ lastOp' = "main"
    /\ UNCHANGED <<model, regressors, trainCalled, trainReturned>>
    /\ IF lastArg.zones_data # <<>>
       THEN /\ pick = 1 /\ fault = NoFault
            /\ lastResult' = "ok"
            /\ UNCHANGED <<lastArg, returned>>
       ELSE \E data \in {SafeGenerateZoneData(pick, fault)} :
               IF data.raised
               THEN /\ lastResult' = "return"
                    /\ UNCHANGED <<lastArg, returned>>
               ELSE /\ lastResult' = "ok"
                    /\ returned' = data.zones
                    /\ lastArg' = [lastArg EXCEPT !.zones_data = data.zones,
                                                  !.last_refresh = lastArg.clock]

\* render_refresh_status_indicator: the user has done nothing, has clicked
\* the checkbox or has pressed the refresh button
RenderRefreshStatusIndicator(user, pick, fault) ==
    /\ lastOp = "main"
    /\ lastResult = "ok"
    /\ lastOp' = "render_refresh_status_indicator"
    /\ UNCHANGED <<model, regressors, trainCalled, trainReturned>>
    /\ CASE user = "nothing" ->
              /\ pick = 1 /\ fault = NoFault
              /\ lastResult' = "ok"
              /\ UNCHANGED <<lastArg, returned>>
         [] user = "checkbox" ->
              /\ pick = 1 /\ fault = NoFault
              /\ lastResult' = "ok"
              /\ returned' = returned
              /\ lastArg' = [lastArg EXCEPT
                               !.auto_refresh_enabled = ~@,
                               !.refresh_start_time =
                                  IF ~lastArg.auto_refresh_enabled
                                  THEN lastArg.clock ELSE @]
         [] user = "button" ->
              \E data \in {SafeGenerateZoneData(pick, fault)} :
                 IF data.raised
                 THEN /\ lastResult' = "ok"
                      /\ UNCHANGED <<lastArg, returned>>
                 ELSE /\ lastResult' = "rerun"
                      /\ returned' = data.zones
                      /\ lastArg' = [ErrorCountReset(lastArg) EXCEPT
                                       !.zones_data = data.zones,
                                       !.last_refresh = lastArg.clock,
                                       !.refresh_start_time = lastArg.clock]

NextDashboard ==
    \/ Tick
    \/ \E scene \in Scenes : \E rerun_raises \in BOOLEAN :
          HandleAutoRefresh(scene[1], scene[2], rerun_raises)
    \/ \E scene \in Scenes : EnsureZoneData(scene[1], scene[2])
    \/ \E user \in {"nothing", "checkbox", "button"} : \E scene \in Scenes :
          RenderRefreshStatusIndicator(user, scene[1], scene[2])

SpecDashboard == InitDashboard /\ [][NextDashboard]_vars

ErrorCount == IF lastArg.refresh_error_count = NA THEN 0
              ELSE lastArg.refresh_error_count[1]

\* C23: the consecutive-failure count is the number of automatic refreshes in
\* a row whose data generation failed (0 after one that succeeded), and once
\* three have failed in a row auto-refresh is disabled.
C23_ThreeFailuresDisable ==
    /\ ErrorCount = lastArg.failed_in_a_row
    /\ lastArg.failed_in_a_row >= 3 => ~lastArg.auto_refresh_enabled

\* the step is a call of handle_auto_refresh (the clock stands still in it)
AutoRefreshRan == lastOp' = "handle_auto_refresh" /\ lastArg'.clock = lastArg.clock

\* C27: a call of handle_auto_refresh made while auto-refresh is disabled or
\* before refresh_interval seconds have passed since refresh_start_time
\* changes none of zones_data, last_refresh and refresh_start_time; a call
\* that refreshes sets refresh_start_time to the current time, and the times
\* of two automatic regenerations in a row differ by refresh_interval or more.
C27_RefreshNoSoonerThanInterval ==
    [][AutoRefreshRan =>
         IF ~lastArg.auto_refresh_enabled
            \/ lastArg.clock - lastArg.refresh_start_time < lastArg.refresh_interval
         THEN /\ lastArg'.zones_data = lastArg.zones_data
              /\ lastArg'.last_refresh = lastArg.last_refresh
              /\ lastArg'.refresh_start_time = lastArg.refresh_start_time
              /\ lastArg'.auto_refreshes = lastArg.auto_refreshes
         ELSE /\ lastArg'.refresh_start_time = lastArg.clock
              /\ lastArg'.auto_refreshes[Len(lastArg'.auto_refreshes)] = lastArg.clock
              /\ Len(lastArg'.auto_refreshes) = 2 =>
                    lastArg'.auto_refreshes[2] - lastArg'.auto_refreshes[1]
                        >= lastArg.refresh_interval]_vars

\* two automatic regenerations exactly refresh_interval seconds apart
C27_Witness ==
    /\ lastOp = "handle_auto_refresh"
    /\ Len(lastArg.auto_refreshes) = 2
    /\ lastArg.auto_refreshes[2] = lastArg.clock
    /\ lastArg.auto_refreshes[2] - lastArg.auto_refreshes[1] = lastArg.refresh_interval

InRangeOrFallback(z, count) ==
    \/ ZoneRanges[z][1] <= count /\ count <= ZoneRanges[z][2]
    \/ count = FallbackCrowdData[z]

\* a run of main has got as far as drawing the page
Rendered == lastOp \in {"main", "render_refresh_status_indicator"}

\* C28: no call of safe_generate_zone_data raises; the data it returns has an
\* entry for Gate, Hall and Exit, each with a count inside the zone's range or
\* equal to the zone's fallback value; and once a run of main has drawn the
\* page the session's zones_data holds the three zones.
C28_AlwaysThreeZones ==
    /\ lastResult # "return"
    /\ lastArg.refresh_error_count = NA
    /\ DOMAIN returned # {} =>
          /\ DOMAIN returned = Zones
          /\ \A z \in Zones : InRangeOrFallback(z, returned[z].current_count)
    /\ Rendered => DOMAIN lastArg.zones_data = Zones

\* every fallback level has failed and the data is the hardcoded one
C28_Witness ==
    /\ Rendered
    /\ DOMAIN returned = Zones
    /\ \A z \in Zones : /\ returned[z].status = "Critical"
                        /\ lastArg.zones_data[z].status = "Critical"

-----------------------------------------------------------------------------
(* Properties: the exported document *)

DigitValue(c) == (CHOOSE k \in 1..10 : DigitChars[k] = c) - 1

RECURSIVE ParseDigits(_)
ParseDigits(text) ==
    IF text = <<>> THEN 0
    ELSE 10 * ParseDigits(SubSeq(text, 1, Len(text) - 1)) + DigitValue(text[Len(text)])

\* the timestamp a reader of the document gets from an ISO text: the date,
\* and the time of day when the text has one
ParseIsoformat(text) ==
    ParseDigits(SubSeq(text, 1, 4)) * HoursPerDay
        + (IF Len(text) >= 7 THEN ParseDigits(SubSeq(text, 6, 7)) ELSE 0)

\* C24: the document has one record per input row, in row order, and reading
\* a record's timestamp back gives the row's timestamp; total_predictions is
\* the number of records, and prediction_period.start and .end read back as
\* the smallest and the largest input timestamp.
C24_ExportRoundTrip ==
    Exported =>
        LET ds == Col(lastArg.predictions, S_ds)
        IN  /\ Len(returned.predictions) = lastArg.predictions.n
            /\ \A i \in 1..lastArg.predictions.n :
                  ParseIsoformat(returned.predictions[i].timestamp) = ds[i][1]
            /\ returned.metadata.total_predictions = Len(returned.predictions)
            /\ \A i \in 1..lastArg.predictions.n :
                  /\ ParseIsoformat(returned.metadata.prediction_period.start) <= ds[i][1]
                  /\ ParseIsoformat(returned.metadata.prediction_period.end) >= ds[i][1]
            /\ \E i, j \in 1..lastArg.predictions.n :
                  /\ ParseIsoformat(returned.metadata.prediction_period.start) = ds[i][1]
                  /\ ParseIsoformat(returned.metadata.prediction_period.end) = ds[j][1]

\* an exported forecast whose rows lie on two days
C24_Witness ==
    /\ Exported
    /\ Len(returned.predictions) >= 2
    /\ returned.predictions[1].timestamp # returned.predictions[2].timestamp
    /\ \E i, j \in 1..Len(returned.predictions) :
          /\ SubSeq(returned.predictions[i].timestamp, 1, 4)
                # SubSeq(returned.predictions[j].timestamp, 1, 4)
          /\ SubSeq(returned.predictions[j].timestamp, 6, 7) # <<"0","0">>

-----------------------------------------------------------------------------
(* data_processor.py: the festival_flag column as pandas stores it.        *)
(* A stored value is a record: its Python type, its number (for bool, int  *)
(* and float; True is 1) and its text (for str); nan is the missing value. *)
(* read_csv gives a column one dtype: bool, int64, float64 (numbers with   *)
(* missing values) or object (strings, or booleans, with missing values).  *)

Stored(type, num, text) == [type |-> type, num |-> num, text |-> text]

NaN == Stored("nan", 0, <<>>)

\* str(value), as astype(str) applies it
AsTypeStr(v) ==
    CASE v.type = "bool"  -> IF v.num = 1 THEN <<"T","r","u","e">>
                             ELSE <<"F","a","l","s","e">>
      [] v.type = "int"   -> ZeroPadded(v.num, 1)
      [] v.type = "float" -> ZeroPadded(v.num, 1) \o <<".","0">>
      [] v.type = "str"   -> v.text
      [] v.type = "nan"   -> S_nan

\* val in valid_bool_values: numbers and booleans compare by value
ValidBoolValue(v) ==
    CASE v.type = "bool" -> TRUE
      [] v.type \in {"int", "float"} -> v.num \in {0, 1}
      [] v.type = "str" -> v.text \in TrueTokens \cup FalseTokens
      [] v.type = "nan" -> FALSE

\* the columns read_csv can produce, by dtype
StoredValues ==
    [bool    |-> {Stored("bool", n, <<>>) : n \in 0..1},
     int64   |-> {Stored("int", n, <<>>) : n \in 0..2},
     float64 |-> {Stored("float", n, <<>>) : n \in 0..2} \cup {NaN},
     object  |-> {Stored("str", 0, t) : t \in TrueTokens \cup FalseTokens
                                               \cup {<<" ","y","e","s">>, <<"T","R","U","E">>}}
                 \cup {Stored("bool", n, <<>>) : n \in 0..1} \cup {NaN}]

FestivalColumns ==
    UNION {[1..2 -> StoredValues[dtype]] : dtype \in DOMAIN StoredValues}

InitFestival ==
    /\ model = NoModel
    /\ regressors = <<>>
    /\ lastOp = "load_csv"
    /\ lastResult = "ok"
    /\ lastArg \in FestivalColumns
    /\ returned = <<>>
    /\ trainCalled = FALSE
    /\ trainReturned = FALSE

\* _convert_to_boolean(series) on the column as loaded
ConvertToBooleanCall ==
    /\ lastOp = "load_csv"
    /\ lastOp' = "_convert_to_boolean"
    /\ lastResult' = "ok"
    /\ lastArg' = lastArg
    /\ returned' = LET Text(i) == Val(AsTypeStr(lastArg[i]))
                   IN  ConvertToBoolean(MakeColumn(Len(lastArg), Text))
    /\ UNCHANGED <<model, regressors, trainCalled, trainReturned>>

NextFestival == ConvertToBooleanCall

SpecFestival == InitFestival /\ [][NextFestival]_vars

\* the boolean an accepted value denotes
Denoted(v) ==
    IF v.type = "str"
    THEN v.text \in {<<"1">>, <<"t","r","u","e">>, <<"T","r","u","e">>,
                     <<"y","e","s">>, <<"Y","e","s">>}
    ELSE v.num = 1

\* C29: _convert_to_boolean turns every value of the column that
\* validate_data accepts into the boolean it denotes, and every missing
\* value into False.
C29_AcceptedValuesConverted ==
    lastOp = "_convert_to_boolean" =>
        \A i \in 1..Len(lastArg) :
            /\ ValidBoolValue(lastArg[i]) => returned[i] = Val(Denoted(lastArg[i]))
            /\ lastArg[i] = NaN => returned[i] = Val(FALSE)

\* the values stored as bool, int or str are converted to what they denote
StoredTextConverted ==
    lastOp = "_convert_to_boolean" =>
        \A i \in 1..Len(lastArg) :
            /\ (ValidBoolValue(lastArg[i]) /\ lastArg[i].type # "float")
                  => returned[i] = Val(Denoted(lastArg[i]))
            /\ lastArg[i] = NaN => returned[i] = Val(FALSE)

-----------------------------------------------------------------------------
(* Properties: what imputation leaves behind *)

FiveColumns == {S_date, S_hour, S_visitors, S_festival_flag, S_weather}

\* C30: when handle_missing_values returns for a table in which each of date,
\* hour, visitors, festival_flag and weather has a value in some row, no cell
\* of these columns is missing in the result.
C30_NoMissingAfterImputation ==
    (/\ MissingValuesHandled
     /\ \A name \in FiveColumns : ~AllNA(Col(lastArg.before, name)))
        => \A name \in FiveColumns : ~HasNA(Col(returned, name))

\* the weather categories written in a table as loaded: its texts that are
\* neither missing nor blank, stripped and in lower case
WrittenCategories(df) ==
    {Lower(Strip(Col(df, S_weather)[i][1])) :
        i \in {j \in 1..df.n : /\ Col(df, S_weather)[j] # NA
                               /\ Strip(Col(df, S_weather)[j][1]) # <<>>}}

\* C26: after preprocess_data and then handle_missing_values, every weather
\* value of the result is a category written in the loaded table (the mode
\* is one of them) or "unknown": nothing else stands for a missing weather.
C26_MissingWeatherImputed ==
    [][(/\ lastOp = "preprocess_data"
        /\ lastOp' = "handle_missing_values"
        /\ lastResult' = "ok")
          => \A i \in 1..returned'.n :
                \/ Col(returned', S_weather)[i][1] \in WrittenCategories(lastArg.before)
                \/ Col(returned', S_weather)[i][1] = S_unknown]_vars

====
